---- MODULE Spec2Model ----
(***************************************************************************)
(* Enterprise adaptation layer of the generative-AI CLI:                   *)
(*   - SsoAuthClient            (packages/core/src/auth/sso.ts)            *)
(*   - LlmHttpClient            (packages/core/src/utils/fetch.ts)         *)
(*   - EnterpriseContentGenerator (packages/core/src/core/contentGenerator.ts) *)
(* Every asynchronous method is cut at its awaits: one action per          *)
(* synchronous stretch of code between two suspension points.              *)
(***************************************************************************)
EXTENDS Integers, Sequences, FiniteSets, TLC

VARIABLES
  \* ---- SsoAuthClient and the credential cache file ----
  now,          \* Date.now(), in milliseconds
  ssoUrl,       \* SsoAuthClient.ssoUrl (process.env.SSO_SERVER || '')
  userid,       \* process.env.ADA_GENAI_SSO_ID || ONE_BANK_ID || 'test'
  password,     \* process.env.ADA_GENAI_SSO_PASSWORD || ONE_BANK_PASSWORD || 'test'
  file,         \* content of the cache file '.ssotoken'
  spc,          \* per caller: position inside getToken
  before,       \* per caller: the cache file when getToken was called
  seen,         \* per caller: what readFile delivered
  checkedAt,    \* per caller: Date.now() at the expiry comparison
  resp,         \* per caller: the SSO response body {id_token, expires_in}
  respAt,       \* per caller: Date.now() when the response was handled
  tokenData,    \* per caller: tokenData built by setTokenInCache
  posts,        \* per caller: POSTs sent to the SSO endpoint by this call
  wrote,        \* per caller: contents this call wrote to the cache file
  slog,         \* per caller: the console lines this call printed
  sres,         \* per caller: outcome of getToken
  \* ---- LlmHttpClient.requestWithHandling ----
  maxAttemptsCfg, \* config.maxAttempts (may be undefined)
  rpc,          \* per request: position inside requestWithHandling
  options,      \* per request: the GaxiosOptions passed (its url)
  attempt,      \* per request: the local `attempt`
  lastError,    \* per request: the local `lastError`
  sent,         \* per request: calls of gaxios.request made so far
  hist,         \* per request: how each call of gaxios.request settled
  delays,       \* per request: the setTimeout delays awaited so far
  rres,         \* per request: outcome of requestWithHandling
  \* ---- LlmHttpClient: the ContentGenerator methods ----
  accessToken,  \* config.accessToken ('' when not configured)
  cfgModel,     \* config.model
  cpc,          \* position inside the method called
  cop,          \* the method called
  creq,         \* the request passed
  cauth,        \* the bearer tokens getAuthHeaders delivered to this call
  backend,      \* the calls of requestWithHandling made by this call
  pending,      \* the stream generator: items still to be yielded
  cyield,       \* elements pulled from the returned sequence
  cgen,         \* the stream generator: not made, suspended, ended, threw
  cres,         \* outcome of the method called
  \* ---- estimateTokenCount (both implementations) ----
  estIn,        \* the contents passed
  estOut,       \* result of estimateTokenCount of contentGenerator.ts
  llmOut,       \* result of LlmHttpClient.estimateTokenCount
  \* ---- EnterpriseContentGenerator ----
  endpointConfig, \* the four availability flags
  warningsShown,  \* EnterpriseContentGenerator.warningsShown
  warnedAt,       \* per endpoint: which of its disabled-path calls warned
  disabledCalls,  \* per endpoint: calls that have taken its disabled path
  gpc,          \* per client: position inside the gate's method
  gop,          \* per client: the method called
  greq,         \* per client: the request passed
  wrappedCalls, \* per client: calls this call made to the wrapped generator
  wrappedRes,   \* per client: what the awaited wrapped call delivered
  yielded,      \* per client: elements pulled from the returned sequence
  gres,         \* per client: outcome of the gate's method
  \* ---- request shaping, logging and configuration (one call each) ----
  genRequest,   \* the request passed to generateContent / generateContentStream
  genData,      \* options.data built by generateContent
  streamData,   \* options.data built by generateContentStream
  logging,      \* LlmHttpClientConfig.logging
  logIn,        \* the options, response and error handed to the log calls
  logOut,       \* console lines of logRequest, logResponse and the error log
  env,          \* process.env and the arguments of createContentGeneratorConfig
  generatorConfig, \* the ContentGeneratorConfig returned
  \* ---- CustomHttpInterceptor and global.fetch ----
  globalFetch,  \* global.fetch
  constructed,  \* per instance: the constructor has run
  interceptorConfig, \* per instance: this.config
  originalFetch,     \* per instance: this.originalFetch
  isIntercepted,     \* per instance: this.isIntercepted
  patches,      \* per instance: assignments of a new function to global.fetch
  calls,        \* calls of intercept() and restore() made so far
  lastCall,     \* the latest call made
  toFetch,      \* the request the process is about to make
  fetched       \* what the latest call of fetch came to

ssoVars == <<now, ssoUrl, userid, password, file, spc, before, seen, checkedAt,
             resp, respAt, tokenData, posts, wrote, slog, sres>>

retryVars == <<maxAttemptsCfg, rpc, options, attempt, lastError, sent, hist,
               delays, rres>>

clientVars == <<accessToken, cfgModel, cpc, cop, creq, cauth, backend, pending,
                cyield, cgen, cres>>

estVars == <<estIn, estOut, llmOut>>

gateVars == <<endpointConfig, warningsShown, warnedAt, disabledCalls, gpc, gop,
              greq, wrappedCalls, wrappedRes, yielded, gres>>

shapeVars == <<genRequest, genData, streamData, logging, logIn, logOut, env,
               generatorConfig>>

fetchVars == <<globalFetch, constructed, interceptorConfig, originalFetch,
               isIntercepted, patches, calls, lastCall, toFetch, fetched>>

pureVars == <<shapeVars, fetchVars>>

vars == <<ssoVars, retryVars, clientVars, estVars, gateVars, pureVars>>

-----------------------------------------------------------------------------
(* Bounds *)

\* Bodies handed to the log calls are nested up to MaxDepth levels.
MaxDepth == 2

\* Calls of intercept() and restore() in one run.
MaxCalls == 4

\* Date.now() runs from 0 to MaxSeconds * 1000 ms.
MaxSeconds == 2

\* config.maxAttempts is drawn from 0 .. MaxCfgAttempts (or left undefined).
MaxCfgAttempts == 4

\* Each fallback path is taken at most MaxDisabledCalls times in a run.
MaxDisabledCalls == 2

\* A contents list passed to the estimators has at most MaxBlocks elements.
MaxBlocks == 2

-----------------------------------------------------------------------------
(* SsoAuthClient *)

Callers == {"c1", "c2"}

\* The caller of the sequential runs: one getToken call at a time.
SoloCallers == {"c1"}

\* Token strings; the empty string is the one falsy token.
Tokens == {"", "tokA", "tokB"}

\* expires_in values (seconds) an SSO response may carry.
ExpiresIn == {0, 1}

\* Values of process.env.SSO_SERVER || ''.
SsoUrls == {"", "https://sso.example.com/auth"}

\* Values of the userid sent: the default.
Userids == {"test"}

\* Values of the password sent: the default and a configured one.
Passwords == {"test", "s3cret"}

\* Distances (ms) Date.now() moves between two observations.
TickSteps == {500, 1000}

NULL == "<null>"

\* The cache file: missing, not parseable as a credential (unreadable, not
\* JSON), empty after truncation, the JSON text of {token, expires_at}, or
\* the text of a shorter credential followed by the tail of a longer one.
AbsentFile == [kind |-> "absent", token |-> "", expires_at |-> 0]

GarbageFile == [kind |-> "garbage", token |-> "", expires_at |-> 0]

EmptyFile == [kind |-> "empty", token |-> "", expires_at |-> 0]

\* `seen` before readFile has completed.
NotRead == [kind |-> "unread", token |-> "", expires_at |-> 0]

NoData == [token |-> "", expires_at |-> 0]

NoResp == [id_token |-> NULL, expires_in |-> 0]

NoResult == [kind |-> "none", value |-> ""]

\* JSON.stringify(tokenData, null, 2): a string token and a finite number
\* survive serialisation unchanged.
JSONStringify(td) == [kind |-> "cred", token |-> td.token, expires_at |-> td.expires_at]

\* Number of decimal digits of n >= 0.
RECURSIVE DigitCount(_)
DigitCount(n) == IF n < 10 THEN 1 ELSE 1 + DigitCount(n \div 10)

\* Length in characters of the file content: the text
\* '{\n  "token": "<token>",\n  "expires_at": <n>\n}' for a credential, and
\* the length of the longer text for a mixed content.
FileSize(content) ==
  IF content.kind \in {"cred", "mixed"}
    THEN 35 + Len(content.token) + DigitCount(content.expires_at)
    ELSE 0

\* The file after `data` has been written at offset 0 over `content`: the
\* text of `data`, followed by what `content` holds beyond its length.
Overwrite(content, data) ==
  IF FileSize(content) > FileSize(data)
    THEN [content EXCEPT !.kind = "mixed"]
    ELSE data

\* Mutant of GetTokenFromCache: the expiry comparison reversed.
GetTokenFromCacheReversed(content, t) ==
  IF content.kind = "cred" /\ content.expires_at < t THEN content.token ELSE NULL

\* Mutant of GetTokenFromCache: a credential is still served at the instant
\* it expires.
GetTokenFromCacheInclusive(content, t) ==
  IF content.kind = "cred" /\ content.expires_at >= t THEN content.token ELSE NULL

\* getTokenFromCache: the token when the content parses and
\* expires_at > Date.now(); null on any read or parse failure or expiry.
GetTokenFromCache(content, t) ==
  IF content.kind = "cred" /\ content.expires_at > t THEN content.token ELSE NULL

\* JavaScript truthiness of `cachedToken` (string | null).
Truthy(tok) == tok # NULL /\ tok # ""

\* Mutant of SetTokenData: expires_in taken as milliseconds.
SetTokenDataUnscaled(token, expiresIn, t) ==
  [token |-> token, expires_at |-> t + expiresIn]

\* tokenData of setTokenInCache(token, expiresIn) at Date.now() = t.
SetTokenData(token, expiresIn, t) ==
  [token |-> token, expires_at |-> t + expiresIn * 1000]

TokenResult(tok) == [kind |-> "token", value |-> tok]

ErrorResult(msg) == [kind |-> "error", value |-> msg]

ConfigErrorMsg == "SSO_SERVER environment variable is not set"

AuthErrorMsg == "SSO Authentication failed"

\* A console line: the values printed, in order.
UrlLine(url) == <<"SSO URL: ", url>>

UsernameLine(user) == <<"SSO username: ", user>>

FailedLine(message) == <<"SSO authentication failed:", message>>

DataLine(data) == <<"Response data:">> \o data

StatusLine(status) == <<"Response status:", status>>

UnexpectedLine(error) == <<"An unexpected error occurred:", error>>

\* How the POST to the SSO endpoint may fail: no response (network level),
\* or a non-2xx response, whose body is whatever the endpoint sends, a
\* plain text or a text that repeats the credentials it was sent.
SsoRejection(hasResponse, status, message, data) ==
  [hasResponse |-> hasResponse, status |-> status, message |-> message,
   data |-> data]

SsoRejections(user, pass) ==
  { SsoRejection(FALSE, "", "request to SSO endpoint failed", <<>>),
    SsoRejection(TRUE, "401", "Request failed with status code 401",
                 <<"invalid credentials">>),
    SsoRejection(TRUE, "401", "Request failed with status code 401",
                 <<"login rejected for ", user, pass>>) }

\* The lines the catch block prints for a GaxiosError.
RejectionLines(f) ==
  IF f.hasResponse
    THEN <<FailedLine(f.message), DataLine(f.data), StatusLine(f.status)>>
    ELSE <<FailedLine(f.message)>>

InitFiles ==
  {AbsentFile, GarbageFile}
    \cup {JSONStringify([token |-> t, expires_at |-> e]) :
            t \in Tokens, e \in {0, 1000, 2000}}

SsoQuiet ==
  /\ now = 0
  /\ ssoUrl = ""
  /\ userid = "test"
  /\ password = "test"
  /\ file = AbsentFile
  /\ spc = [c \in Callers |-> "idle"]
  /\ before = [c \in Callers |-> NotRead]
  /\ seen = [c \in Callers |-> NotRead]
  /\ checkedAt = [c \in Callers |-> 0]
  /\ resp = [c \in Callers |-> NoResp]
  /\ respAt = [c \in Callers |-> 0]
  /\ tokenData = [c \in Callers |-> NoData]
  /\ posts = [c \in Callers |-> 0]
  /\ wrote = [c \in Callers |-> <<>>]
  /\ slog = [c \in Callers |-> <<>>]
  /\ sres = [c \in Callers |-> NoResult]

SsoInit ==
  /\ now = 0
  /\ ssoUrl \in SsoUrls
  /\ userid \in Userids
  /\ password \in Passwords
  /\ file \in InitFiles
  /\ spc = [c \in Callers |-> "idle"]
  /\ before = [c \in Callers |-> NotRead]
  /\ seen = [c \in Callers |-> NotRead]
  /\ checkedAt = [c \in Callers |-> 0]
  /\ resp = [c \in Callers |-> NoResp]
  /\ respAt = [c \in Callers |-> 0]
  /\ tokenData = [c \in Callers |-> NoData]
  /\ posts = [c \in Callers |-> 0]
  /\ wrote = [c \in Callers |-> <<>>]
  /\ slog = [c \in Callers |-> <<>>]
  /\ sres = [c \in Callers |-> NoResult]

\* getToken (auth/sso.ts), up to its first await: the configuration check,
\* then the URL is printed and readFile is started.
GetTokenStart(c) ==
  /\ spc[c] = "idle"
  /\ before' = [before EXCEPT ![c] = file]
  /\ IF ssoUrl = ""
       THEN /\ spc' = [spc EXCEPT ![c] = "done"]
            /\ sres' = [sres EXCEPT ![c] = ErrorResult(ConfigErrorMsg)]
            /\ UNCHANGED slog
       ELSE /\ spc' = [spc EXCEPT ![c] = "readFile"]
            /\ slog' = [slog EXCEPT ![c] = Append(@, UrlLine(ssoUrl))]
            /\ UNCHANGED sres
  /\ UNCHANGED <<now, ssoUrl, userid, password, file, seen, checkedAt, resp,
                 respAt, tokenData, posts, wrote>>
  /\ UNCHANGED <<retryVars, clientVars, estVars, gateVars, pureVars>>

\* getToken of the SsoAuthClient defined in utils/fetch.ts, up to its first
\* await: the URL is printed and readFile is started; ssoUrl is not tested.
AxiosGetTokenStart(c) ==
  /\ spc[c] = "idle"
  /\ before' = [before EXCEPT ![c] = file]
  /\ spc' = [spc EXCEPT ![c] = "readFile"]
  /\ slog' = [slog EXCEPT ![c] = Append(@, UrlLine(ssoUrl))]
  /\ UNCHANGED <<now, ssoUrl, userid, password, file, seen, checkedAt, resp,
                 respAt, tokenData, posts, wrote, sres>>
  /\ UNCHANGED <<retryVars, clientVars, estVars, gateVars, pureVars>>

\* fs.promises.readFile completes with the file as it is at that moment.
ReadFile(c) ==
  /\ spc[c] = "readFile"
  /\ seen' = [seen EXCEPT ![c] = file]
  /\ spc' = [spc EXCEPT ![c] = "checkCache"]
  /\ UNCHANGED <<now, ssoUrl, userid, password, file, before, checkedAt, resp,
                 respAt, tokenData, posts, wrote, slog, sres>>
  /\ UNCHANGED <<retryVars, clientVars, estVars, gateVars, pureVars>>

\* Mutant of CheckCache: a file that is no credential makes getToken fail.
CheckCacheRaising(c) ==
  /\ spc[c] = "checkCache"
  /\ checkedAt' = [checkedAt EXCEPT ![c] = now]
  /\ LET cachedToken == GetTokenFromCache(seen[c], now)
     IN IF Truthy(cachedToken)
          THEN /\ spc' = [spc EXCEPT ![c] = "done"]
               /\ sres' = [sres EXCEPT ![c] = TokenResult(cachedToken)]
               /\ UNCHANGED <<posts, slog>>
          ELSE IF seen[c].kind # "cred"
                 THEN /\ spc' = [spc EXCEPT ![c] = "done"]
                      /\ sres' = [sres EXCEPT ![c] = ErrorResult(AuthErrorMsg)]
                      /\ UNCHANGED <<posts, slog>>
                 ELSE /\ spc' = [spc EXCEPT ![c] = "awaitSso"]
                      /\ posts' = [posts EXCEPT ![c] = @ + 1]
                      /\ slog' = [slog EXCEPT ![c] = Append(@, UsernameLine(userid))]
                      /\ UNCHANGED sres
  /\ UNCHANGED <<now, ssoUrl, userid, password, file, before, seen, resp,
                 respAt, tokenData, wrote>>
  /\ UNCHANGED <<retryVars, clientVars, estVars, gateVars, pureVars>>

\* The continuation of readFile: parse, compare expires_at with Date.now(),
\* and either return the cached token or print the user name and send the
\* POST to the SSO endpoint.
CheckCache(c) ==
  /\ spc[c] = "checkCache"
  /\ checkedAt' = [checkedAt EXCEPT ![c] = now]
  /\ LET cachedToken == GetTokenFromCache(seen[c], now)
     IN IF Truthy(cachedToken)
          THEN /\ spc' = [spc EXCEPT ![c] = "done"]
               /\ sres' = [sres EXCEPT ![c] = TokenResult(cachedToken)]
               /\ UNCHANGED <<posts, slog>>
          ELSE /\ spc' = [spc EXCEPT ![c] = "awaitSso"]
               /\ posts' = [posts EXCEPT ![c] = @ + 1]
               /\ slog' = [slog EXCEPT ![c] = Append(@, UsernameLine(userid))]
               /\ UNCHANGED sres
  /\ UNCHANGED <<now, ssoUrl, userid, password, file, before, seen, resp,
                 respAt, tokenData, wrote>>
  /\ UNCHANGED <<retryVars, clientVars, estVars, gateVars, pureVars>>

\* The SSO endpoint answers 2xx with {id_token, expires_in}: setTokenInCache
\* builds tokenData from Date.now() and starts writeFile.
SsoSuccess(c) ==
  /\ spc[c] = "awaitSso"
  /\ \E t \in Tokens, e \in ExpiresIn :
       /\ resp' = [resp EXCEPT ![c] = [id_token |-> t, expires_in |-> e]]
       /\ tokenData' = [tokenData EXCEPT ![c] = SetTokenData(t, e, now)]
  /\ respAt' = [respAt EXCEPT ![c] = now]
  /\ spc' = [spc EXCEPT ![c] = "openFile"]
  /\ UNCHANGED <<now, ssoUrl, userid, password, file, before, seen, checkedAt,
                 posts, wrote, slog, sres>>
  /\ UNCHANGED <<retryVars, clientVars, estVars, gateVars, pureVars>>

\* Mutant of SsoFailure: the catch block also empties the cache file.
SsoFailureClearsCache(c) ==
  /\ spc[c] = "awaitSso"
  /\ \E f \in SsoRejections(userid, password) :
       slog' = [slog EXCEPT ![c] = @ \o RejectionLines(f)]
  /\ file' = EmptyFile
  /\ spc' = [spc EXCEPT ![c] = "done"]
  /\ sres' = [sres EXCEPT ![c] = ErrorResult(AuthErrorMsg)]
  /\ UNCHANGED <<now, ssoUrl, userid, password, before, seen, checkedAt, resp,
                 respAt, tokenData, posts, wrote>>
  /\ UNCHANGED <<retryVars, clientVars, estVars, gateVars, pureVars>>

\* The SSO request fails (no response, or a non-2xx status): the catch block
\* prints the error's message, and the body and status of the response when
\* there is one, and throws 'SSO Authentication failed'.
SsoFailure(c) ==
  /\ spc[c] = "awaitSso"
  /\ \E f \in SsoRejections(userid, password) :
       slog' = [slog EXCEPT ![c] = @ \o RejectionLines(f)]
  /\ spc' = [spc EXCEPT ![c] = "done"]
  /\ sres' = [sres EXCEPT ![c] = ErrorResult(AuthErrorMsg)]
  /\ UNCHANGED <<now, ssoUrl, userid, password, file, before, seen, checkedAt,
                 resp, respAt, tokenData, posts, wrote>>
  /\ UNCHANGED <<retryVars, clientVars, estVars, gateVars, pureVars>>

\* writeFile opens the cache file with flag 'w': the file is created or
\* truncated to empty.
WriteOpen(c) ==
  /\ spc[c] = "openFile"
  /\ file' = EmptyFile
  /\ spc' = [spc EXCEPT ![c] = "writeData"]
  /\ UNCHANGED <<now, ssoUrl, userid, password, before, seen, checkedAt, resp,
                 respAt, tokenData, posts, wrote, slog, sres>>
  /\ UNCHANGED <<retryVars, clientVars, estVars, gateVars, pureVars>>

\* writeFile writes JSON.stringify(tokenData) at offset 0 and closes the
\* file.
WriteData(c) ==
  /\ spc[c] = "writeData"
  /\ file' = Overwrite(file, JSONStringify(tokenData[c]))
  /\ wrote' = [wrote EXCEPT ![c] = Append(@, JSONStringify(tokenData[c]))]
  /\ spc' = [spc EXCEPT ![c] = "written"]
  /\ UNCHANGED <<now, ssoUrl, userid, password, before, seen, checkedAt, resp,
                 respAt, tokenData, posts, slog, sres>>
  /\ UNCHANGED <<retryVars, clientVars, estVars, gateVars, pureVars>>

\* Mutant of WriteFailure: the error of writeFile is swallowed and the token
\* is returned.
WriteFailureReturnsToken(c) ==
  /\ spc[c] \in {"openFile", "writeData"}
  /\ spc' = [spc EXCEPT ![c] = "done"]
  /\ slog' = [slog EXCEPT ![c] = Append(@, UnexpectedLine("write failed"))]
  /\ sres' = [sres EXCEPT ![c] = TokenResult(resp[c].id_token)]
  /\ UNCHANGED <<now, ssoUrl, userid, password, file, before, seen, checkedAt,
                 resp, respAt, tokenData, posts, wrote>>
  /\ UNCHANGED <<retryVars, clientVars, estVars, gateVars, pureVars>>

\* writeFile rejects (open or write error): the rejection lands in the catch
\* block of getToken, which prints the error and throws
\* 'SSO Authentication failed'.
WriteFailure(c) ==
  /\ spc[c] \in {"openFile", "writeData"}
  /\ spc' = [spc EXCEPT ![c] = "done"]
  /\ slog' = [slog EXCEPT ![c] = Append(@, UnexpectedLine("write failed"))]
  /\ sres' = [sres EXCEPT ![c] = ErrorResult(AuthErrorMsg)]
  /\ UNCHANGED <<now, ssoUrl, userid, password, file, before, seen, checkedAt,
                 resp, respAt, tokenData, posts, wrote>>
  /\ UNCHANGED <<retryVars, clientVars, estVars, gateVars, pureVars>>

\* The continuation of `await this.setTokenInCache(...)`: return id_token.
ReturnToken(c) ==
  /\ spc[c] = "written"
  /\ spc' = [spc EXCEPT ![c] = "done"]
  /\ sres' = [sres EXCEPT ![c] = TokenResult(resp[c].id_token)]
  /\ UNCHANGED <<now, ssoUrl, userid, password, file, before, seen, checkedAt,
                 resp, respAt, tokenData, posts, wrote, slog>>
  /\ UNCHANGED <<retryVars, clientVars, estVars, gateVars, pureVars>>

\* The caller has consumed the outcome; the locals of the call are gone.
GetTokenEnd(c) ==
  /\ spc[c] = "done"
  /\ spc' = [spc EXCEPT ![c] = "idle"]
  /\ before' = [before EXCEPT ![c] = NotRead]
  /\ seen' = [seen EXCEPT ![c] = NotRead]
  /\ checkedAt' = [checkedAt EXCEPT ![c] = 0]
  /\ resp' = [resp EXCEPT ![c] = NoResp]
  /\ respAt' = [respAt EXCEPT ![c] = 0]
  /\ tokenData' = [tokenData EXCEPT ![c] = NoData]
  /\ posts' = [posts EXCEPT ![c] = 0]
  /\ wrote' = [wrote EXCEPT ![c] = <<>>]
  /\ slog' = [slog EXCEPT ![c] = <<>>]
  /\ sres' = [sres EXCEPT ![c] = NoResult]
  /\ UNCHANGED <<now, ssoUrl, userid, password, file>>
  /\ UNCHANGED <<retryVars, clientVars, estVars, gateVars, pureVars>>

\* Time passes.
Tick ==
  /\ \E d \in TickSteps :
       /\ now + d <= MaxSeconds * 1000
       /\ now' = now + d
  /\ UNCHANGED <<ssoUrl, userid, password, file, spc, before, seen, checkedAt,
                 resp, respAt, tokenData, posts, wrote, slog, sres>>
  /\ UNCHANGED <<retryVars, clientVars, estVars, gateVars, pureVars>>

SsoNext ==
  \/ \E c \in SoloCallers : GetTokenStart(c)
  \/ \E c \in SoloCallers : ReadFile(c)
  \/ \E c \in SoloCallers : CheckCache(c)
  \/ \E c \in SoloCallers : SsoSuccess(c)
  \/ \E c \in SoloCallers : SsoFailure(c)
  \/ \E c \in SoloCallers : WriteOpen(c)
  \/ \E c \in SoloCallers : WriteData(c)
  \/ \E c \in SoloCallers : WriteFailure(c)
  \/ \E c \in SoloCallers : ReturnToken(c)
  \/ \E c \in SoloCallers : GetTokenEnd(c)
  \/ Tick

\* The same calls against the SsoAuthClient of utils/fetch.ts.
AxiosSsoNext ==
  \/ \E c \in SoloCallers : AxiosGetTokenStart(c)
  \/ \E c \in SoloCallers : ReadFile(c)
  \/ \E c \in SoloCallers : CheckCache(c)
  \/ \E c \in SoloCallers : SsoSuccess(c)
  \/ \E c \in SoloCallers : SsoFailure(c)
  \/ \E c \in SoloCallers : WriteOpen(c)
  \/ \E c \in SoloCallers : WriteData(c)
  \/ \E c \in SoloCallers : WriteFailure(c)
  \/ \E c \in SoloCallers : ReturnToken(c)
  \/ \E c \in SoloCallers : GetTokenEnd(c)
  \/ Tick

\* Two callers of getToken at once, one call each, at one instant of the
\* clock, starting from a cache that is missing or holds a complete
\* credential, expired or not.
PairInitFiles ==
  {AbsentFile} \cup {JSONStringify([token |-> "tokA", expires_at |-> e]) : e \in {0, 1000}}

PairSsoInit ==
  /\ now = 0
  /\ ssoUrl = "https://sso.example.com/auth"
  /\ userid = "test"
  /\ password = "s3cret"
  /\ file \in PairInitFiles
  /\ spc = [c \in Callers |-> "idle"]
  /\ before = [c \in Callers |-> NotRead]
  /\ seen = [c \in Callers |-> NotRead]
  /\ checkedAt = [c \in Callers |-> 0]
  /\ resp = [c \in Callers |-> NoResp]
  /\ respAt = [c \in Callers |-> 0]
  /\ tokenData = [c \in Callers |-> NoData]
  /\ posts = [c \in Callers |-> 0]
  /\ wrote = [c \in Callers |-> <<>>]
  /\ slog = [c \in Callers |-> <<>>]
  /\ sres = [c \in Callers |-> NoResult]

PairSsoNext ==
  \/ \E c \in Callers : GetTokenStart(c)
  \/ \E c \in Callers : ReadFile(c)
  \/ \E c \in Callers : CheckCache(c)
  \/ \E c \in Callers : SsoSuccess(c)
  \/ \E c \in Callers : SsoFailure(c)
  \/ \E c \in Callers : WriteOpen(c)
  \/ \E c \in Callers : WriteData(c)
  \/ \E c \in Callers : WriteFailure(c)
  \/ \E c \in Callers : ReturnToken(c)

-----------------------------------------------------------------------------
(* Texts: strings as sequences of characters (or of indivisible fragments) *)

\* `text.includes(sub)`
Includes(text, sub) ==
  \E i \in 1..(Len(text) - Len(sub) + 1) : SubSeq(text, i, i + Len(sub) - 1) = sub

DigitChars == <<"0", "1", "2", "3", "4", "5", "6", "7", "8", "9">>

\* The decimal text of n >= 0, as `${n}` renders it.
RECURSIVE Digits(_)
Digits(n) ==
  IF n < 10 THEN <<DigitChars[n + 1]>>
  ELSE Digits(n \div 10) \o <<DigitChars[(n % 10) + 1]>>

\* The text '404'.
Text404 == <<"4", "0", "4">>

\* Model names: config.model and request.model.
ModelTexts == {<<"m", "1">>, <<"m", "4", "0", "4">>}

\* `${baseUrl}/v1/projects/${project}/locations/${location}/publishers/
\* google/models/${model}:${endpoint}`
BuildUrl(model, endpoint) ==
  <<"https://llm.example.com", "/v1/projects/", "proj", "/locations/", "loc",
    "/publishers/google/models/">> \o model \o <<":", endpoint>>

-----------------------------------------------------------------------------
(* LlmHttpClient.requestWithHandling *)

Requests == {"r1", "r2"}

\* The request of the sequential runs: one logical request at a time.
SoloRequests == {"r1"}

\* `const baseDelayMs = 300`
BaseDelayMs == 300

\* `this.config.maxAttempts ?? 3`
DefaultMaxAttempts == 3

Undefined == [defined |-> FALSE, value |-> 0]

Defined(n) == [defined |-> TRUE, value |-> n]

\* Values of config.maxAttempts: left out, or a count.
MaxAttemptsCfgs == {Undefined} \cup {Defined(n) : n \in 0..MaxCfgAttempts}

\* Mutant of MaxAttempts: the configured value is ignored.
MaxAttemptsIgnoringConfig == DefaultMaxAttempts

\* `(this.config as any).maxAttempts ?? 3`
MaxAttempts == IF maxAttemptsCfg.defined THEN maxAttemptsCfg.value ELSE DefaultMaxAttempts

\* The options passed to requestWithHandling: the url and the Authorization
\* header (<<>> where the headers do not matter).
OptionsWith(url, authorization) == [url |-> url, authorization |-> authorization]

Options(url) == OptionsWith(url, <<>>)

NoOptions == Options(<<>>)

\* The options of a request made on its own.
RequestOptions == {Options(BuildUrl(m, "generateContent")) : m \in ModelTexts}

\* How one call of gaxios.request settles.
\* A response the promise resolves with; response.data is an object (named
\* by `body`, '' for an empty one).
Resolved(status, body) ==
  [settle |-> "resolve", hasResponse |-> TRUE, status |-> status,
   code |-> "", body |-> body, isArray |-> FALSE, items |-> <<>>,
   data |-> <<>>, message |-> <<>>]

\* A response whose response.data is an array of objects.
ResolvedArray(status, items) ==
  [settle |-> "resolve", hasResponse |-> TRUE, status |-> status,
   code |-> "", body |-> "", isArray |-> TRUE, items |-> items,
   data |-> <<>>, message |-> <<>>]

\* A GaxiosError carrying the response (the status failed validateStatus);
\* `data` is the text of JSON.stringify(redactSensitive(response.data)).
RejectedHttpWith(status, data) ==
  [settle |-> "reject", hasResponse |-> TRUE, status |-> status,
   code |-> "", body |-> "errBody", isArray |-> FALSE, items |-> <<>>,
   data |-> data, message |-> <<"Request failed with status code ">> \o Digits(status)]

RejectedHttp(status) == RejectedHttpWith(status, <<"{", "e", "r", "r", "}">>)

\* A GaxiosError without response: connection failure, or timeout
\* (code 'ECONNABORTED'); `message` is the text of error.message.
RejectedNetWith(code, message) ==
  [settle |-> "reject", hasResponse |-> FALSE, status |-> 0,
   code |-> code, body |-> "", isArray |-> FALSE, items |-> <<>>,
   data |-> <<>>, message |-> message]

RejectedNet(code) == RejectedNetWith(code, <<"request failed, reason: ", code>>)

TransportOutcomes ==
  {Resolved(200, "bodyA"), Resolved(200, "bodyB"), Resolved(200, ""),
   Resolved(500, "bodyE"),
   ResolvedArray(200, <<>>), ResolvedArray(200, <<"itemA", "itemB">>)}
    \cup {RejectedHttp(st) : st \in {400, 401, 404, 500, 599}}
    \cup {RejectedHttpWith(400, <<"{", "c", "o", "d", "e", ":">> \o Text404 \o <<"}">>)}
    \cup {RejectedNet(code) : code \in {"ECONNRESET", "ECONNABORTED"}}
    \cup {RejectedNetWith("ENOTFOUND", <<"getaddrinfo ENOTFOUND host">> \o Text404)}

\* `response.status >= 500 && response.status < 600` on a resolved response.
ResolvedServerError(o) ==
  o.settle = "resolve" /\ o.status >= 500 /\ o.status < 600

\* The value caught by `catch (error)`: the rejection of gaxios.request, or
\* the `new Error('Server error: ...')` thrown for a resolved 5xx response,
\* which carries no `response`.
CaughtError(o) ==
  IF o.settle = "resolve"
    THEN [hasResponse |-> FALSE, status |-> 0, code |-> "",
          message |-> <<"Server error: ">> \o Digits(o.status), data |-> <<>>]
    ELSE [hasResponse |-> o.hasResponse, status |-> o.status, code |-> o.code,
          message |-> o.message, data |-> o.data]

NoError ==
  [hasResponse |-> FALSE, status |-> 0, code |-> "", message |-> <<>>,
   data |-> <<>>]

\* `const isNetworkError = !error.response`
IsNetworkError(err) == ~err.hasResponse

\* Mutant of Is5xx: the lower limit excluded.
Is5xxAbove500(err) ==
  err.hasResponse /\ err.status # 0 /\ err.status > 500 /\ err.status < 600

\* `const is5xx = status && status >= 500 && status < 600`
Is5xx(err) ==
  err.hasResponse /\ err.status # 0 /\ err.status >= 500 /\ err.status < 600

\* Mutant of ShouldBreak: every failure is retried until the budget is spent.
ShouldBreakOnBudgetOnly(att, err) == att >= MaxAttempts

\* `if (attempt >= maxAttempts || (!isNetworkError && !is5xx)) break;`
ShouldBreak(att, err) ==
  att >= MaxAttempts \/ (~IsNetworkError(err) /\ ~Is5xx(err))

\* Mutant of BackoffDelay: linear instead of exponential backoff.
BackoffDelayLinear(att) == BaseDelayMs * att

\* `const delay = baseDelayMs * Math.pow(2, attempt - 1)`
BackoffDelay(att) == BaseDelayMs * 2 ^ (att - 1)

\* Which branch builds the text of the consolidated error.
ErrorDetail(err, ran) ==
  IF ran /\ err.hasResponse THEN "http"
  ELSE IF ran /\ err.code = "ECONNABORTED" THEN "timeout"
  ELSE IF ran /\ err.message # <<>> THEN "message"
  ELSE "bare"

\* `errorMsg`: the fixed prefix, then the status, the (absent) status text,
\* the url of the request and the response body when there is one; or
\* 'Request timed out'; or the message of the last error.
ErrorText(err, ran, url) ==
  <<"[LlmHttpClient] Request failed">> \o
    (CASE ErrorDetail(err, ran) = "http" ->
            <<": HTTP ">> \o Digits(err.status) \o <<" ", " at ">> \o url
              \o (IF err.data # <<>> THEN <<"\nResponse: ">> \o err.data ELSE <<>>)
       [] ErrorDetail(err, ran) = "timeout" -> <<": Request timed out">>
       [] ErrorDetail(err, ran) = "message" -> <<": ">> \o err.message
       [] OTHER -> <<>>)

\* The consolidated error thrown after the loop.
FinalError(err, ran, url) ==
  [kind |-> "error", detail |-> ErrorDetail(err, ran),
   status |-> IF ran /\ err.hasResponse THEN err.status ELSE 0,
   body |-> "", isArray |-> FALSE, items |-> <<>>,
   message |-> ErrorText(err, ran, url)]

ResponseResult(o) ==
  [kind |-> "response", detail |-> "", status |-> o.status, body |-> o.body,
   isArray |-> o.isArray, items |-> o.items, message |-> <<>>]

NoOutcome ==
  [kind |-> "none", detail |-> "", status |-> 0, body |-> "",
   isArray |-> FALSE, items |-> <<>>, message |-> <<>>]

RetryQuiet ==
  /\ maxAttemptsCfg = Undefined
  /\ rpc = [r \in Requests |-> "idle"]
  /\ options = [r \in Requests |-> NoOptions]
  /\ attempt = [r \in Requests |-> 0]
  /\ lastError = [r \in Requests |-> NoError]
  /\ sent = [r \in Requests |-> 0]
  /\ hist = [r \in Requests |-> <<>>]
  /\ delays = [r \in Requests |-> <<>>]
  /\ rres = [r \in Requests |-> NoOutcome]

RetryInit ==
  /\ maxAttemptsCfg \in MaxAttemptsCfgs
  /\ rpc = [r \in Requests |-> "idle"]
  /\ options = [r \in Requests |-> NoOptions]
  /\ attempt = [r \in Requests |-> 0]
  /\ lastError = [r \in Requests |-> NoError]
  /\ sent = [r \in Requests |-> 0]
  /\ hist = [r \in Requests |-> <<>>]
  /\ delays = [r \in Requests |-> <<>>]
  /\ rres = [r \in Requests |-> NoOutcome]

\* requestWithHandling up to its first await: the locals are set, the loop
\* condition is tested and, when it holds, gaxios.request is called; with a
\* budget of 0 the loop body never runs and the error is thrown at once.
RequestStartStep(r, opts) ==
  /\ rpc[r] = "idle"
  /\ options' = [options EXCEPT ![r] = opts]
  /\ IF 0 < MaxAttempts
       THEN /\ rpc' = [rpc EXCEPT ![r] = "attempting"]
            /\ sent' = [sent EXCEPT ![r] = 1]
            /\ UNCHANGED rres
       ELSE /\ rpc' = [rpc EXCEPT ![r] = "done"]
            /\ rres' = [rres EXCEPT ![r] = FinalError(NoError, FALSE, opts.url)]
            /\ UNCHANGED sent
  /\ UNCHANGED <<maxAttemptsCfg, attempt, lastError, hist, delays>>

\* A call of requestWithHandling made on its own.
RequestStart(r) ==
  /\ \E opts \in RequestOptions : RequestStartStep(r, opts)
  /\ UNCHANGED <<ssoVars, clientVars, estVars, gateVars, pureVars>>

\* gaxios.request resolves with a response that is no server error: it is
\* returned.
AttemptSucceeds(r) ==
  /\ rpc[r] = "attempting"
  /\ \E o \in TransportOutcomes :
       /\ o.settle = "resolve"
       /\ ~ResolvedServerError(o)
       /\ hist' = [hist EXCEPT ![r] = Append(@, o)]
       /\ rres' = [rres EXCEPT ![r] = ResponseResult(o)]
  /\ rpc' = [rpc EXCEPT ![r] = "done"]
  /\ UNCHANGED <<maxAttemptsCfg, options, attempt, lastError, sent, delays>>
  /\ UNCHANGED <<ssoVars, clientVars, estVars, gateVars, pureVars>>

\* Mutant of AttemptFails: a failed attempt puts a fresh token into the
\* headers.
AttemptFailsReacquires(r) ==
  /\ rpc[r] = "attempting"
  /\ \E o \in TransportOutcomes :
       /\ o.settle = "reject" \/ ResolvedServerError(o)
       /\ hist' = [hist EXCEPT ![r] = Append(@, o)]
       /\ lastError' = [lastError EXCEPT ![r] = CaughtError(o)]
       /\ attempt' = [attempt EXCEPT ![r] = @ + 1]
       /\ IF ShouldBreak(attempt[r] + 1, CaughtError(o))
            THEN /\ rpc' = [rpc EXCEPT ![r] = "done"]
                 /\ rres' = [rres EXCEPT ![r] =
                      FinalError(CaughtError(o), TRUE, options[r].url)]
                 /\ UNCHANGED delays
            ELSE /\ rpc' = [rpc EXCEPT ![r] = "backoff"]
                 /\ delays' = [delays EXCEPT ![r] = Append(@, BackoffDelay(attempt[r] + 1))]
                 /\ UNCHANGED rres
  /\ options' = [options EXCEPT ![r].authorization = <<"Bearer ", "tokB">>]
  /\ UNCHANGED <<maxAttemptsCfg, sent>>
  /\ UNCHANGED <<ssoVars, clientVars, estVars, gateVars, pureVars>>

\* Mutant of AttemptFails: `attempt++` is missing.
AttemptFailsUncounted(r) ==
  /\ rpc[r] = "attempting"
  /\ \E o \in TransportOutcomes :
       /\ o.settle = "reject" \/ ResolvedServerError(o)
       /\ hist' = [hist EXCEPT ![r] = Append(@, o)]
       /\ lastError' = [lastError EXCEPT ![r] = CaughtError(o)]
       /\ attempt' = attempt
       /\ IF ShouldBreak(attempt[r], CaughtError(o))
            THEN /\ rpc' = [rpc EXCEPT ![r] = "done"]
                 /\ rres' = [rres EXCEPT ![r] =
                      FinalError(CaughtError(o), TRUE, options[r].url)]
                 /\ UNCHANGED delays
            ELSE /\ rpc' = [rpc EXCEPT ![r] = "backoff"]
                 /\ delays' = [delays EXCEPT ![r] = Append(@, BackoffDelay(1))]
                 /\ UNCHANGED rres
  /\ UNCHANGED <<maxAttemptsCfg, options, sent>>
  /\ UNCHANGED <<ssoVars, clientVars, estVars, gateVars, pureVars>>

\* Mutant of AttemptFails: one attempt counter for all the requests under
\* way.
AttemptFailsSharedCounter(r) ==
  /\ rpc[r] = "attempting"
  /\ \E o \in TransportOutcomes :
       /\ o.settle = "reject" \/ ResolvedServerError(o)
       /\ hist' = [hist EXCEPT ![r] = Append(@, o)]
       /\ lastError' = [lastError EXCEPT ![r] = CaughtError(o)]
       /\ attempt' = [q \in Requests |-> IF q = r \/ rpc[q] # "idle"
                                         THEN attempt[q] + 1 ELSE attempt[q]]
       /\ IF ShouldBreak(attempt[r] + 1, CaughtError(o))
            THEN /\ rpc' = [rpc EXCEPT ![r] = "done"]
                 /\ rres' = [rres EXCEPT ![r] =
                      FinalError(CaughtError(o), TRUE, options[r].url)]
                 /\ UNCHANGED delays
            ELSE /\ rpc' = [rpc EXCEPT ![r] = "backoff"]
                 /\ delays' = [delays EXCEPT ![r] = Append(@, BackoffDelay(attempt[r] + 1))]
                 /\ UNCHANGED rres
  /\ UNCHANGED <<maxAttemptsCfg, options, sent>>
  /\ UNCHANGED <<ssoVars, clientVars, estVars, gateVars, pureVars>>

\* gaxios.request rejects, or resolves with a 5xx response: the catch block
\* records the error, counts the attempt and either leaves the loop (and the
\* consolidated error is thrown) or starts the backoff delay.
AttemptFails(r) ==
  /\ rpc[r] = "attempting"
  /\ \E o \in TransportOutcomes :
       /\ o.settle = "reject" \/ ResolvedServerError(o)
       /\ hist' = [hist EXCEPT ![r] = Append(@, o)]
       /\ lastError' = [lastError EXCEPT ![r] = CaughtError(o)]
       /\ attempt' = [attempt EXCEPT ![r] = @ + 1]
       /\ IF ShouldBreak(attempt[r] + 1, CaughtError(o))
            THEN /\ rpc' = [rpc EXCEPT ![r] = "done"]
                 /\ rres' = [rres EXCEPT ![r] =
                      FinalError(CaughtError(o), TRUE, options[r].url)]
                 /\ UNCHANGED delays
            ELSE /\ rpc' = [rpc EXCEPT ![r] = "backoff"]
                 /\ delays' = [delays EXCEPT ![r] = Append(@, BackoffDelay(attempt[r] + 1))]
                 /\ UNCHANGED rres
  /\ UNCHANGED <<maxAttemptsCfg, options, sent>>
  /\ UNCHANGED <<ssoVars, clientVars, estVars, gateVars, pureVars>>

\* The backoff timer fires: the loop condition is tested again and the next
\* call of gaxios.request is made, or the loop ends and the error is thrown.
BackoffElapsed(r) ==
  /\ rpc[r] = "backoff"
  /\ IF attempt[r] < MaxAttempts
       THEN /\ rpc' = [rpc EXCEPT ![r] = "attempting"]
            /\ sent' = [sent EXCEPT ![r] = @ + 1]
            /\ UNCHANGED rres
       ELSE /\ rpc' = [rpc EXCEPT ![r] = "done"]
            /\ rres' = [rres EXCEPT ![r] =
                 FinalError(lastError[r], TRUE, options[r].url)]
            /\ UNCHANGED sent
  /\ UNCHANGED <<maxAttemptsCfg, options, attempt, lastError, hist, delays>>
  /\ UNCHANGED <<ssoVars, clientVars, estVars, gateVars, pureVars>>

\* The caller has consumed the outcome; the locals of the call are gone.
RequestEnd(r) ==
  /\ rpc[r] = "done"
  /\ rpc' = [rpc EXCEPT ![r] = "idle"]
  /\ options' = [options EXCEPT ![r] = NoOptions]
  /\ attempt' = [attempt EXCEPT ![r] = 0]
  /\ lastError' = [lastError EXCEPT ![r] = NoError]
  /\ sent' = [sent EXCEPT ![r] = 0]
  /\ hist' = [hist EXCEPT ![r] = <<>>]
  /\ delays' = [delays EXCEPT ![r] = <<>>]
  /\ rres' = [rres EXCEPT ![r] = NoOutcome]
  /\ UNCHANGED maxAttemptsCfg
  /\ UNCHANGED <<ssoVars, clientVars, estVars, gateVars, pureVars>>

RetryNext ==
  \/ \E r \in SoloRequests : RequestStart(r)
  \/ \E r \in SoloRequests : AttemptSucceeds(r)
  \/ \E r \in SoloRequests : AttemptFails(r)
  \/ \E r \in SoloRequests : BackoffElapsed(r)
  \/ \E r \in SoloRequests : RequestEnd(r)

\* Two calls of requestWithHandling under way at once on one client, one
\* call each, with a budget of one or two attempts.
PairRetryInit ==
  /\ maxAttemptsCfg \in {Defined(1), Defined(2)}
  /\ rpc = [r \in Requests |-> "idle"]
  /\ options = [r \in Requests |-> NoOptions]
  /\ attempt = [r \in Requests |-> 0]
  /\ lastError = [r \in Requests |-> NoError]
  /\ sent = [r \in Requests |-> 0]
  /\ hist = [r \in Requests |-> <<>>]
  /\ delays = [r \in Requests |-> <<>>]
  /\ rres = [r \in Requests |-> NoOutcome]

PairRetryNext ==
  \/ \E r \in Requests : RequestStart(r)
  \/ \E r \in Requests : AttemptSucceeds(r)
  \/ \E r \in Requests : AttemptFails(r)
  \/ \E r \in Requests : BackoffElapsed(r)

-----------------------------------------------------------------------------
(* Local token estimation (contentGenerator.ts, estimateTokenCount) *)

\* Math.ceil(a / b) for a >= 0, b > 0.
CeilDiv(a, b) == (a + b - 1) \div b

Max(a, b) == IF a >= b THEN a ELSE b

\* A Part: text ('' when absent), a functionCall or not, inlineData or not
\* with the length of its data (0 when data is missing).
Part(text, functionCall, inlineData, dataLen) ==
  [text |-> text, functionCall |-> functionCall, inlineData |-> inlineData,
   dataLen |-> dataLen]

\* An element of a contents list that has a `parts` key: a Content.
ContentBlock(role, parts) ==
  [kind |-> "content", role |-> role, parts |-> parts, str |-> ""]

\* Any other element of a contents list, by its String(...) conversion.
BareItem(str) == [kind |-> "bare", role |-> "", parts |-> <<>>, str |-> str]

\* The three shapes of ContentListUnion: a string, a list, anything else.
StringContents(text) == [kind |-> "string", text |-> text, items |-> <<>>]

ListContents(items) == [kind |-> "list", text |-> "", items |-> items]

OtherContents == [kind |-> "other", text |-> "", items |-> <<>>]

\* Mutant of PartTokens: a function call counts 10.
PartTokensFlatCall(p) ==
  (IF p.text # "" THEN CeilDiv(Len(p.text), 4) ELSE 0)
    + (IF p.functionCall THEN 10 ELSE 0)
    + (IF p.inlineData THEN CeilDiv(p.dataLen, 100) ELSE 0)

\* The body of `for (const part of contentObj.parts)`.
PartTokens(p) ==
  (IF p.text # "" THEN CeilDiv(Len(p.text), 4) ELSE 0)
    + (IF p.functionCall THEN 15 ELSE 0)
    + (IF p.inlineData THEN CeilDiv(p.dataLen, 100) ELSE 0)

RECURSIVE SumPartTokens(_)
SumPartTokens(parts) ==
  IF parts = <<>> THEN 0
  ELSE PartTokens(Head(parts)) + SumPartTokens(Tail(parts))

\* The body of `for (const content of contents)`.
ItemTokens(it) ==
  IF it.kind = "content"
    THEN SumPartTokens(it.parts) + (IF it.role # "" THEN 5 ELSE 0)
    ELSE CeilDiv(Len(it.str), 4)

RECURSIVE SumItemTokens(_)
SumItemTokens(items) ==
  IF items = <<>> THEN 0
  ELSE ItemTokens(Head(items)) + SumItemTokens(Tail(items))

\* estimateTokenCount(contents)
EstimateTokenCount(contents) ==
  IF contents.kind = "string"
    THEN CeilDiv(Len(contents.text), 4)
    ELSE Max(1, IF contents.kind = "list"
                  THEN SumItemTokens(contents.items) + 3 * Len(contents.items)
                  ELSE 0)

\* Mutant of LlmPartTokens: inline data is not counted.
LlmPartTokensNoInlineData(p) ==
  (IF p.text # "" THEN CeilDiv(Len(p.text), 4) ELSE 0)
    + (IF p.functionCall THEN 15 ELSE 0)

\* LlmHttpClient.estimateTokenCount (fetch.ts): the body of
\* `for (const part of item.parts || [])`.
LlmPartTokens(p) ==
  (IF p.text # "" THEN CeilDiv(Len(p.text), 4) ELSE 0)
    + (IF p.functionCall THEN 15 ELSE 0)
    + (IF p.inlineData THEN CeilDiv(p.dataLen, 100) ELSE 0)

RECURSIVE LlmSumPartTokens(_)
LlmSumPartTokens(parts) ==
  IF parts = <<>> THEN 0
  ELSE LlmPartTokens(Head(parts)) + LlmSumPartTokens(Tail(parts))

\* The body of `for (const item of contents)`.
LlmItemTokens(it) ==
  IF it.kind = "content"
    THEN LlmSumPartTokens(it.parts) + (IF it.role # "" THEN 5 ELSE 0)
    ELSE CeilDiv(Len(it.str), 4)

RECURSIVE LlmSumItemTokens(_)
LlmSumItemTokens(items) ==
  IF items = <<>> THEN 0
  ELSE LlmItemTokens(Head(items)) + LlmSumItemTokens(Tail(items))

\* LlmHttpClient.estimateTokenCount(contents)
LlmEstimateTokenCount(contents) ==
  IF contents.kind = "string"
    THEN CeilDiv(Len(contents.text), 4)
    ELSE IF contents.kind = "list"
      THEN Max(1, LlmSumItemTokens(contents.items) + 3 * Len(contents.items))
      ELSE 1

\* Inputs of the estimators.
EstStrings == {"", "a", "abcd", "abcde", "hello world"}

EstPartLists ==
  { <<>>,
    << Part("hello", FALSE, FALSE, 0) >>,
    << Part("", TRUE, FALSE, 0) >>,
    << Part("", FALSE, TRUE, 0) >>,
    << Part("", FALSE, TRUE, 101) >>,
    << Part("hello world", TRUE, TRUE, 100), Part("a", FALSE, FALSE, 0) >> }

EstItems ==
  {ContentBlock(role, parts) : role \in {"", "user"}, parts \in EstPartLists}
    \cup {BareItem("abc"), BareItem("")}

EstLists == UNION {[1..n -> EstItems] : n \in 0..MaxBlocks}

EstContents ==
  {StringContents(t) : t \in EstStrings}
    \cup {ListContents(l) : l \in EstLists}
    \cup {OtherContents}

NotEstimated == [done |-> FALSE, value |-> 0]

Estimated(n) == [done |-> TRUE, value |-> n]

EstQuiet ==
  /\ estIn = OtherContents
  /\ estOut = NotEstimated
  /\ llmOut = NotEstimated

EstInit ==
  /\ estIn \in EstContents
  /\ estOut = NotEstimated
  /\ llmOut = NotEstimated

\* A call of estimateTokenCount(contents) of contentGenerator.ts.
Estimate ==
  /\ ~estOut.done
  /\ estOut' = Estimated(EstimateTokenCount(estIn))
  /\ UNCHANGED <<estIn, llmOut>>
  /\ UNCHANGED <<ssoVars, retryVars, clientVars, gateVars, pureVars>>

\* A call of LlmHttpClient.estimateTokenCount(contents).
LlmEstimate ==
  /\ ~llmOut.done
  /\ llmOut' = Estimated(LlmEstimateTokenCount(estIn))
  /\ UNCHANGED <<estIn, estOut>>
  /\ UNCHANGED <<ssoVars, retryVars, clientVars, gateVars, pureVars>>

EstNext ==
  \/ Estimate
  \/ LlmEstimate

-----------------------------------------------------------------------------
(* LlmHttpClient.generateContent / generateContentStream: the request body *)

\* A property holding the JavaScript value `undefined`.
JsUndefined == "<undefined>"

\* The fields of `config` the methods take out by name: those promoted into
\* the body, and the client-local ones.
PromotedKeys == {"systemInstruction", "safetySettings", "tools", "toolConfig"}

LocalKeys == {"abortSignal", "httpOptions"}

\* A value for each field of GenerateContentConfig drawn: the system
\* instruction is a text or the empty string, the temperature a number or
\* undefined.
GenConfigValue(k, instruction, temperature) ==
  CASE k = "systemInstruction" -> instruction
    [] k = "temperature" -> temperature
    [] k = "safetySettings" -> "settings"
    [] k = "tools" -> "toolList"
    [] k = "toolConfig" -> "toolChoice"
    [] k = "abortSignal" -> "signal"
    [] k = "httpOptions" -> "transport"

\* request.config: any subset of the fields; the empty one stands for a
\* missing config as well (`config || {}`).
GenConfigs ==
  { [k \in K |-> GenConfigValue(k, i, t)] :
      K \in SUBSET (PromotedKeys \cup LocalKeys \cup {"temperature"}),
      i \in {"", "X"}, t \in {"0.7", JsUndefined} }

\* request.contents: the turns of a conversation, in order.
GenContents == {<<"turnA", "turnB">>, <<"turnB", "turnA">>}

GenRequests == {[contents |-> c, config |-> g] : c \in GenContents, g \in GenConfigs}

NoGenRequest == [contents |-> <<>>, config |-> <<>>]

NotShaped == [done |-> FALSE, data |-> <<>>]

Shaped(data) == [done |-> TRUE, data |-> data]

\* `x && {...}`: the property is there and its value is truthy.
JsTruthy(config, k) == k \in DOMAIN config /\ config[k] \notin {"", JsUndefined}

\* Mutant of Rest: abortSignal and httpOptions are not taken out.
RestKeepingLocal(config) ==
  [k \in DOMAIN config \ PromotedKeys |-> config[k]]

\* `...generationConfig`: what the destructuring leaves of config.
Rest(config) ==
  [k \in DOMAIN config \ (PromotedKeys \cup LocalKeys) |-> config[k]]

\* `{role: 'system', parts: [{text: systemInstruction}]}`
SystemBlock(text) == [role |-> "system", parts |-> <<[text |-> text]>>]

\* `const data = {contents, ...(systemInstruction && {...}), ...}`
BuildData(request) ==
  LET config == request.config
      keys == {"contents"}
                \cup {k \in PromotedKeys : JsTruthy(config, k)}
                \cup (IF DOMAIN Rest(config) # {} THEN {"generationConfig"} ELSE {})
  IN [k \in keys |->
        CASE k = "contents" -> request.contents
          [] k = "systemInstruction" -> SystemBlock(config[k])
          [] k = "generationConfig" -> Rest(config)
          [] OTHER -> config[k]]

\* JSON.parse(JSON.stringify(data)): a property whose value is undefined is
\* left out; texts and lists come back as they were.
JsonRoundTrip(data) ==
  [k \in DOMAIN data |->
     IF k = "generationConfig"
       THEN [j \in {i \in DOMAIN data[k] : data[k][i] # JsUndefined} |-> data[k][j]]
       ELSE data[k]]

\* `requestData`, the body handed to requestWithHandling.
RequestData(request) == JsonRoundTrip(BuildData(request))

ShapeQuiet ==
  /\ genRequest = NoGenRequest
  /\ genData = NotShaped
  /\ streamData = NotShaped

ShapeInit ==
  /\ genRequest \in GenRequests
  /\ genData = NotShaped
  /\ streamData = NotShaped

\* generateContent builds the body of its request.
GenerateContentData ==
  /\ ~genData.done
  /\ genData' = Shaped(RequestData(genRequest))
  /\ UNCHANGED <<genRequest, streamData, logging, logIn, logOut, env,
                 generatorConfig>>
  /\ UNCHANGED <<ssoVars, retryVars, clientVars, estVars, gateVars, fetchVars>>

\* generateContentStream builds the body of its request.
GenerateContentStreamData ==
  /\ ~streamData.done
  /\ streamData' = Shaped(RequestData(genRequest))
  /\ UNCHANGED <<genRequest, genData, logging, logIn, logOut, env,
                 generatorConfig>>
  /\ UNCHANGED <<ssoVars, retryVars, clientVars, estVars, gateVars, fetchVars>>

ShapeNext ==
  \/ GenerateContentData
  \/ GenerateContentStreamData

-----------------------------------------------------------------------------
(* LlmHttpClient.logRequest, logResponse, the error log and redactSensitive *)

\* JavaScript values as trees: a text, null, an object (its properties in
\* order) or an array.
Str(s) == [t |-> "str", s |-> s, fields |-> <<>>, items |-> <<>>]

JsNull == [t |-> "null", s |-> "", fields |-> <<>>, items |-> <<>>]

Field(k, v) == [k |-> k, v |-> v]

Obj(fields) == [t |-> "obj", s |-> "", fields |-> fields, items |-> <<>>]

Arr(items) == [t |-> "arr", s |-> "", fields |-> <<>>, items |-> items]

\* `const SENSITIVE_KEYS = [...]`
SENSITIVE_KEYS == {"accessToken", "token", "id_token", "password", "Authorization"}

\* Mutant of RedactSensitive: arrays are returned as they are.
RECURSIVE RedactSensitiveSkippingArrays(_)
RedactSensitiveSkippingArrays(obj) ==
  IF obj.t \notin {"obj", "arr"} THEN obj
  ELSE IF obj.t = "arr" THEN obj
  ELSE Obj([i \in 1..Len(obj.fields) |->
              IF obj.fields[i].k \in SENSITIVE_KEYS
                THEN Field(obj.fields[i].k, Str("REDACTED"))
                ELSE Field(obj.fields[i].k,
                           RedactSensitiveSkippingArrays(obj.fields[i].v))])

\* redactSensitive(obj): a value that is no object is returned as it is; an
\* array is mapped item by item; an object is copied key by key, the value
\* of a sensitive key replaced by 'REDACTED' and every other value redacted
\* in turn.
RECURSIVE RedactSensitive(_)
RedactSensitive(obj) ==
  IF obj.t \notin {"obj", "arr"} THEN obj
  ELSE IF obj.t = "arr"
    THEN Arr([i \in 1..Len(obj.items) |-> RedactSensitive(obj.items[i])])
  ELSE Obj([i \in 1..Len(obj.fields) |->
              IF obj.fields[i].k \in SENSITIVE_KEYS
                THEN Field(obj.fields[i].k, Str("REDACTED"))
                ELSE Field(obj.fields[i].k, RedactSensitive(obj.fields[i].v))])

\* logRequest: a copy of the headers with the value of 'Authorization'
\* replaced; the other headers are kept as they are.
RedactedHeaders(headers) ==
  IF headers.t = "obj"
    THEN Obj([i \in 1..Len(headers.fields) |->
                IF headers.fields[i].k = "Authorization"
                  THEN Field("Authorization", Str("REDACTED"))
                  ELSE headers.fields[i]])
    ELSE headers

\* The object each log call prints.
RequestLine(opts) ==
  Obj(<<Field("url", Str(opts.url)), Field("method", Str("POST")),
        Field("headers", RedactedHeaders(opts.headers)),
        Field("data", RedactSensitive(opts.data))>>)

ResponseLine(response) ==
  Obj(<<Field("status", Str("200")), Field("url", Str(response.url)),
        Field("data", RedactSensitive(response.data))>>)

\* `error.response?.data ? this.redactSensitive(error.response.data) : undefined`
FailureLine(opts, error) ==
  Obj(<<Field("url", Str(opts.url)), Field("status", Str("400")),
        Field("message", Str(error.message))>>
      \o (IF error.data.t # "null"
            THEN <<Field("response", RedactSensitive(error.data))>>
            ELSE <<>>))

\* The secrets of the run: the password or token carried in a body, and the
\* value of the Authorization header.
SecretValue == "s3cret"

BearerValue == "Bearer tokX"

\* Bodies: a text, null, an object with or without a secret under a
\* sensitive key (the secret itself, or an object holding it), and such
\* values wrapped in arrays and objects, MaxDepth levels deep.
PlainText == Str("hello")

SensitiveFields ==
  {Field(k, Str(SecretValue)) : k \in {"password", "token"}}
    \cup {Field("token", Obj(<<Field("value", Str(SecretValue))>>))}

FlatBodies ==
  {PlainText, JsNull, Obj(<<Field("text", PlainText)>>)}
    \cup {Obj(<<Field("text", PlainText), f>>) : f \in SensitiveFields}

Wrapped(x) == {Arr(<<PlainText, x>>), Obj(<<Field("nested", x)>>)}

RECURSIVE BodiesAt(_)
BodiesAt(depth) ==
  IF depth = 0 THEN FlatBodies
  ELSE UNION {Wrapped(x) : x \in BodiesAt(depth - 1)}

Bodies == UNION {BodiesAt(d) : d \in 0..MaxDepth}

\* The headers the methods build.
AuthHeaders ==
  Obj(<<Field("Authorization", Str(BearerValue)),
        Field("Content-Type", Str("application/json"))>>)

\* What the log calls are handed: the options, the response and the error
\* of one attempt, all carrying the same body.
LogInput(body) ==
  [options |-> [url |-> "https://llm.example.com/v1", headers |-> AuthHeaders,
                data |-> body],
   response |-> [url |-> "https://llm.example.com/v1", data |-> body],
   error |-> [message |-> "Request failed with status code 400", data |-> body]]

NoLogInput == LogInput(JsNull)

\* One log call: the line printed (none when logging is off).
LogCall(call, printed, line) == [call |-> call, printed |-> printed, line |-> line]

Called(call) == \E i \in 1..Len(logOut) : logOut[i].call = call

LogQuiet ==
  /\ logging = FALSE
  /\ logIn = NoLogInput
  /\ logOut = <<>>

LogInit ==
  /\ logging \in BOOLEAN
  /\ logIn \in {LogInput(b) : b \in Bodies}
  /\ logOut = <<>>

\* logRequest(options)
LogRequest ==
  /\ ~Called("logRequest")
  /\ logOut' = Append(logOut,
       IF logging THEN LogCall("logRequest", TRUE, RequestLine(logIn.options))
                  ELSE LogCall("logRequest", FALSE, JsNull))
  /\ UNCHANGED <<genRequest, genData, streamData, logging, logIn, env,
                 generatorConfig>>
  /\ UNCHANGED <<ssoVars, retryVars, clientVars, estVars, gateVars, fetchVars>>

\* logResponse(response)
LogResponse ==
  /\ ~Called("logResponse")
  /\ logOut' = Append(logOut,
       IF logging THEN LogCall("logResponse", TRUE, ResponseLine(logIn.response))
                  ELSE LogCall("logResponse", FALSE, JsNull))
  /\ UNCHANGED <<genRequest, genData, streamData, logging, logIn, env,
                 generatorConfig>>
  /\ UNCHANGED <<ssoVars, retryVars, clientVars, estVars, gateVars, fetchVars>>

\* The catch block of requestWithHandling: `if (this.config.logging)
\* console.error('[LlmHttpClient] Request failed:', {...})`
LogFailure ==
  /\ ~Called("logFailure")
  /\ logOut' = Append(logOut,
       IF logging
         THEN LogCall("logFailure", TRUE, FailureLine(logIn.options, logIn.error))
         ELSE LogCall("logFailure", FALSE, JsNull))
  /\ UNCHANGED <<genRequest, genData, streamData, logging, logIn, env,
                 generatorConfig>>
  /\ UNCHANGED <<ssoVars, retryVars, clientVars, estVars, gateVars, fetchVars>>

LogNext ==
  \/ LogRequest
  \/ LogResponse
  \/ LogFailure

-----------------------------------------------------------------------------
(* createContentGeneratorConfig: the enterprise endpoint configuration *)

\* `export enum AuthType`
AuthTypes == {"oauth-personal", "gemini-api-key", "vertex-ai", "cloud-shell"}

\* Values of the GEMINI_ENTERPRISE_* variables: unset, or a text.
FlagValues == {JsUndefined, "true", "false", "TRUE"}

\* The variables naming the four endpoints.
FlagNames == {"generateContent", "generateContentStream", "countTokens", "embedContent"}

\* The environment and the authType argument: whether GOOGLE_GENAI_BASE_URL,
\* GOOGLE_CLOUD_PROJECT and GOOGLE_CLOUD_LOCATION are set, whether a
\* credential is at hand (GOOGLE_API_KEY, GOOGLE_ACCESS_TOKEN or a token of
\* ssoAuth.getToken()), and the four GEMINI_ENTERPRISE_* variables.
Environments ==
  [authType : AuthTypes, baseUrl : BOOLEAN, project : BOOLEAN,
   location : BOOLEAN, credential : BOOLEAN, flags : [FlagNames -> FlagValues]]

NoEnvironment ==
  [authType |-> "oauth-personal", baseUrl |-> FALSE, project |-> FALSE,
   location |-> FALSE, credential |-> FALSE,
   flags |-> [n \in FlagNames |-> JsUndefined]]

\* `export const DEFAULT_ENTERPRISE_ENDPOINTS`
DEFAULT_ENTERPRISE_ENDPOINTS ==
  [generateContent |-> TRUE, generateContentStream |-> FALSE,
   countTokens |-> FALSE, embedContent |-> TRUE]

\* Mutant of EnterpriseEndpoints: every variable must be exactly 'true'.
EnterpriseEndpointsOptIn(flags) ==
  [generateContent |-> flags["generateContent"] = "true",
   generateContentStream |-> flags["generateContentStream"] = "true",
   countTokens |-> flags["countTokens"] = "true",
   embedContent |-> flags["embedContent"] = "true"]

\* `const enterpriseEndpoints = {generateContent: process.env.... !== 'false',
\* generateContentStream: ... === 'true', countTokens: ... === 'true',
\* embedContent: ... !== 'false'}`
EnterpriseEndpoints(flags) ==
  [generateContent |-> flags["generateContent"] # "false",
   generateContentStream |-> flags["generateContentStream"] = "true",
   countTokens |-> flags["countTokens"] = "true",
   embedContent |-> flags["embedContent"] # "false"]

\* The outcomes of createContentGeneratorConfig: the config returned, with
\* or without enterpriseEndpoints, or the error thrown.
GeneratorConfig(kind, endpoints) == [kind |-> kind, enterpriseEndpoints |-> endpoints]

NotCreated == GeneratorConfig("none", DEFAULT_ENTERPRISE_ENDPOINTS)

\* createContentGeneratorConfig(model, authType)
CreateConfig(e) ==
  IF e.authType # "vertex-ai"
    THEN GeneratorConfig("plain", DEFAULT_ENTERPRISE_ENDPOINTS)
  ELSE IF ~e.credential /\ ~(e.project /\ e.location)
    THEN GeneratorConfig("error", DEFAULT_ENTERPRISE_ENDPOINTS)
  ELSE IF e.baseUrl /\ e.project /\ e.location
    THEN GeneratorConfig("enterprise", EnterpriseEndpoints(e.flags))
  ELSE GeneratorConfig("plain", DEFAULT_ENTERPRISE_ENDPOINTS)

ConfigQuiet ==
  /\ env = NoEnvironment
  /\ generatorConfig = NotCreated

ConfigInit ==
  /\ env \in Environments
  /\ generatorConfig = NotCreated

\* One call of createContentGeneratorConfig.
CreateContentGeneratorConfig ==
  /\ generatorConfig.kind = "none"
  /\ generatorConfig' = CreateConfig(env)
  /\ UNCHANGED <<genRequest, genData, streamData, logging, logIn, logOut, env>>
  /\ UNCHANGED <<ssoVars, retryVars, clientVars, estVars, gateVars, fetchVars>>

ConfigNext == CreateContentGeneratorConfig

-----------------------------------------------------------------------------
(* CustomHttpInterceptor (packages/core/src/core/httpInterceptor.ts, the
   class of lines 21-174) *)

Instances == {"i1", "i2"}

SoloInstances == {"i1"}

\* The functions global.fetch can hold: the fetch of the runtime, or the
\* arrow function created by the nth patching call of intercept() of one
\* instance.
NativeFetch == [inst |-> "native", nth |-> 0]

Wrapper(i, n) == [inst |-> i, nth |-> n]

\* `interface InterceptorConfig`; an optional field left out is ''.
InterceptorConfigs ==
  [baseURL : {"https://proxy.corp"}, projectId : {"proj"},
   location : {"us-central1"}, apiKey : {"", "key1"},
   accessToken : {"", "tokA"}]

BearerConfigs == {c \in InterceptorConfigs : c.apiKey = "" /\ c.accessToken # ""}

NoInterceptorConfig ==
  [baseURL |-> "", projectId |-> "", location |-> "", apiKey |-> "",
   accessToken |-> ""]

\* Host names, as `new URL(...).hostname` delivers them (lower case).
GenLangHost == <<"generativelanguage.", "googleapis.com">>

Hosts == {GenLangHost, <<"aiplatform.", "googleapis.com">>, <<"example.com">>}

\* Path names, one sequence of fragments per segment.
ModelPath(version, models, last) == <<<<version>>, <<models>>, last>>

Pathnames ==
  {ModelPath(v, "models", <<"gemini-pro", ":", m>>) :
     v \in {"v1beta", "v1"}, m \in {"generateContent", "countTokens"}}
    \cup {ModelPath("v1beta", "Models", <<"gemini-pro", ":", "generateContent">>),
          ModelPath("v1beta", "models", <<"gemini-pro">>),
          ModelPath("v1beta", "tunedModels", <<"t1", ":", "generateContent">>),
          <<<<"v1">>, <<"files">>>>}

\* `url.search`: empty, or the question mark and what follows it.
Searches == {<<>>, <<"?", "alt=sse">>}

Urls == [host : Hosts, pathname : Pathnames, search : Searches]

\* The first argument of fetch: a string (or a URL object, which reads the
\* same) or a Request object.
FetchInputs == [kind : {"string", "Request"}, url : Urls]

GenLangUrl ==
  [host |-> GenLangHost,
   pathname |-> ModelPath("v1beta", "models",
                          <<"gemini-pro", ":", "generateContent">>),
   search |-> <<>>]

OtherUrl ==
  [host |-> <<"example.com">>, pathname |-> <<<<"v1">>, <<"files">>>>,
   search |-> <<>>]

SoloFetchInputs == [kind : {"string", "Request"}, url : {GenLangUrl, OtherUrl}]

NoFetchInput ==
  [kind |-> "none", url |-> [host |-> <<>>, pathname |-> <<>>, search |-> <<>>]]

\* The second argument of fetch. Header maps are sets of name/value pairs;
\* a Headers object delivers its names in lower case.
HeaderMap(kind, entries) == [kind |-> kind, entries |-> entries]

NoHeaders == HeaderMap("undefined", {})

RequestInit(method, headers) ==
  [defined |-> TRUE, method |-> method, headers |-> headers]

NoInit == [defined |-> FALSE, method |-> "", headers |-> NoHeaders]

RequestInits ==
  {NoInit,
   RequestInit("POST", NoHeaders),
   RequestInit("POST",
     HeaderMap("object", {<<"Content-Type", <<"application/json">>>>,
                          <<"Authorization", <<"Bearer ", "old">>>>})),
   RequestInit("POST",
     HeaderMap("Headers", {<<"content-type", <<"application/json">>>>,
                           <<"authorization", <<"Bearer ", "old">>>>}))}

SoloRequestInits == {RequestInit("POST", NoHeaders)}

\* `input.toString()` of a Request object is '[object Request]', which
\* `new URL(...)` rejects with a TypeError.
ParsesAsUrl(input) == input.kind = "string"

LowerAtom(a) ==
  IF a = "Models" THEN "models" ELSE a

\* `pathname.toLowerCase()`
ToLowerCase(segments) ==
  [s \in DOMAIN segments |->
     [k \in DOMAIN segments[s] |-> LowerAtom(segments[s][k])]]

\* `pathname.includes('/a/b/')`, the path name being '/' + segments joined
\* with '/'.
PathIncludes(segments, a, b) ==
  \E s \in 1..(Len(segments) - 2) :
    segments[s] = <<a>> /\ segments[s + 1] = <<b>>

\* isGoogleGenAIRequest(url)
IsGoogleGenAIRequest(u) ==
  \/ u.host = GenLangHost
  \/ /\ Includes(u.host, <<"googleapis.com">>)
     /\ PathIncludes(ToLowerCase(u.pathname), "v1beta", "models")
  \/ /\ Includes(u.host, <<"googleapis.com">>)
     /\ PathIncludes(ToLowerCase(u.pathname), "v1", "models")

\* The positions of ':' in one segment.
Colons(segment) == {k \in 1..Len(segment) : segment[k] = ":"}

Least(S) == CHOOSE k \in S : \A j \in S : k <= j

\* `pathname.match(/:([^/]+)$/)`: from the first colon of the last segment
\* that has something behind it, to the end; ':generateContent' otherwise.
ExtractMethod(segments) ==
  LET last == segments[Len(segments)]
      hits == {k \in Colons(last) : k < Len(last)}
  IN IF hits # {} THEN SubSeq(last, Least(hits), Len(last))
     ELSE <<":", "generateContent">>

\* The loop over pathParts and the removal of the method suffix.
ModelNameOf(segments) ==
  LET at == {s \in 1..(Len(segments) - 1) : segments[s] = <<"models">>}
  IN IF at = {} THEN <<>>
     ELSE LET name == segments[Least(at) + 1]
          IN IF Colons(name) # {} THEN SubSeq(name, 1, Least(Colons(name)) - 1)
             ELSE name

\* Mutant of KeyParameter: the key is added whenever an apiKey is configured.
KeyParameterAlways(cfg, u) ==
  IF cfg.apiKey # ""
    THEN <<IF u.search # <<>> THEN "&" ELSE "?", "key=", cfg.apiKey>>
    ELSE <<>>

\* `if (this.config.apiKey && !this.config.accessToken) newUrl +=
\* `${separator}key=${apiKey}``
KeyParameter(cfg, u) ==
  IF cfg.apiKey # "" /\ cfg.accessToken = ""
    THEN <<IF u.search # <<>> THEN "&" ELSE "?", "key=", cfg.apiKey>>
    ELSE <<>>

\* transformGoogleGenAIUrl(originalUrl)
TransformGoogleGenAIUrl(cfg, u) ==
  <<cfg.baseURL, "/v1/projects/", cfg.projectId, "/locations/", cfg.location,
    "/publishers/google/models/">>
    \o ModelNameOf(u.pathname) \o ExtractMethod(u.pathname) \o u.search
    \o KeyParameter(cfg, u)

\* prepareRequest(init)
PrepareRequest(cfg, init) ==
  LET copied == init.headers.entries
      headers == IF cfg.accessToken # ""
                   THEN {p \in copied : p[1] # "Authorization"}
                          \cup {<<"Authorization", <<"Bearer ", cfg.accessToken>>>>}
                   ELSE copied
  IN RequestInit(init.method, HeaderMap("object", headers))

\* The request fetchWithCaBundle hands to gaxios.
GaxiosRequest(url, init) ==
  [url |-> url,
   method |-> IF init.method = "" THEN "GET" ELSE init.method,
   headers |-> init.headers.entries]

NoGaxiosRequest == [url |-> <<>>, method |-> "", headers |-> {}]

\* What one call of global.fetch(input, init) came to: forwarded to the
\* fetch of the runtime, sent through gaxios, or rejected before anything
\* was sent.
FetchOutcome(input, init, via, passedInput, passedInit, request) ==
  [input |-> input, init |-> init, via |-> via, passedInput |-> passedInput,
   passedInit |-> passedInit, request |-> request]

NotFetched ==
  FetchOutcome(NoFetchInput, NoInit, "none", NoFetchInput, NoInit, NoGaxiosRequest)

\* No interceptor has been constructed: global.fetch is the fetch of the
\* runtime.
FetchQuiet ==
  /\ globalFetch = NativeFetch
  /\ constructed = [i \in Instances |-> FALSE]
  /\ interceptorConfig = [i \in Instances |-> NoInterceptorConfig]
  /\ originalFetch = [i \in Instances |-> NativeFetch]
  /\ isIntercepted = [i \in Instances |-> FALSE]
  /\ patches = [i \in Instances |-> 0]
  /\ calls = 0
  /\ lastCall = [op |-> "none", inst |-> ""]
  /\ toFetch = [input |-> NoFetchInput, init |-> NoInit]
  /\ fetched = NotFetched

\* Nothing constructed yet; the requests of the run are not fixed.
InterceptInit == FetchQuiet

\* Nothing constructed yet; the process is about to make one request.
RedirectInit ==
  /\ globalFetch = NativeFetch
  /\ constructed = [i \in Instances |-> FALSE]
  /\ interceptorConfig = [i \in Instances |-> NoInterceptorConfig]
  /\ originalFetch = [i \in Instances |-> NativeFetch]
  /\ isIntercepted = [i \in Instances |-> FALSE]
  /\ patches = [i \in Instances |-> 0]
  /\ calls = 0
  /\ lastCall = [op |-> "none", inst |-> ""]
  /\ toFetch \in [input : FetchInputs, init : RequestInits]
  /\ fetched = NotFetched

\* `new CustomHttpInterceptor(config)`
Construct(i, cfg) ==
  /\ ~constructed[i]
  /\ constructed' = [constructed EXCEPT ![i] = TRUE]
  /\ interceptorConfig' = [interceptorConfig EXCEPT ![i] = cfg]
  /\ originalFetch' = [originalFetch EXCEPT ![i] = globalFetch]
  /\ lastCall' = [op |-> "construct", inst |-> i]
  /\ UNCHANGED <<globalFetch, isIntercepted, patches, calls, toFetch, fetched>>
  /\ UNCHANGED <<ssoVars, retryVars, clientVars, estVars, gateVars, shapeVars>>

\* Mutant of Intercept: the early return on isIntercepted is missing.
InterceptAgain(i) ==
  /\ constructed[i]
  /\ calls < MaxCalls
  /\ calls' = calls + 1
  /\ lastCall' = [op |-> "intercept", inst |-> i]
  /\ globalFetch' = Wrapper(i, patches[i] + 1)
  /\ patches' = [patches EXCEPT ![i] = @ + 1]
  /\ isIntercepted' = [isIntercepted EXCEPT ![i] = TRUE]
  /\ UNCHANGED <<constructed, interceptorConfig, originalFetch, toFetch, fetched>>
  /\ UNCHANGED <<ssoVars, retryVars, clientVars, estVars, gateVars, shapeVars>>

\* intercept()
Intercept(i) ==
  /\ constructed[i]
  /\ calls < MaxCalls
  /\ calls' = calls + 1
  /\ lastCall' = [op |-> "intercept", inst |-> i]
  /\ IF isIntercepted[i]
       THEN UNCHANGED <<globalFetch, patches, isIntercepted>>
       ELSE /\ globalFetch' = Wrapper(i, patches[i] + 1)
            /\ patches' = [patches EXCEPT ![i] = @ + 1]
            /\ isIntercepted' = [isIntercepted EXCEPT ![i] = TRUE]
  /\ UNCHANGED <<constructed, interceptorConfig, originalFetch, toFetch, fetched>>
  /\ UNCHANGED <<ssoVars, retryVars, clientVars, estVars, gateVars, shapeVars>>

\* restore()
Restore(i) ==
  /\ constructed[i]
  /\ calls < MaxCalls
  /\ calls' = calls + 1
  /\ lastCall' = [op |-> "restore", inst |-> i]
  /\ IF ~isIntercepted[i]
       THEN UNCHANGED <<globalFetch, isIntercepted>>
       ELSE /\ globalFetch' = originalFetch[i]
            /\ isIntercepted' = [isIntercepted EXCEPT ![i] = FALSE]
  /\ UNCHANGED <<constructed, interceptorConfig, originalFetch, patches, toFetch,
                 fetched>>
  /\ UNCHANGED <<ssoVars, retryVars, clientVars, estVars, gateVars, shapeVars>>

\* One call of the function f with (input, init): the fetch of the runtime
\* takes the request; the arrow function of intercept() parses the input,
\* sends a Google Generative AI request through fetchWithCaBundle and hands
\* everything else to the originalFetch of its instance.
RECURSIVE Dispatch(_, _, _)
Dispatch(f, input, init) ==
  IF f = NativeFetch
    THEN FetchOutcome(input, init, "native", input, init, NoGaxiosRequest)
  ELSE IF ~ParsesAsUrl(input)
    THEN FetchOutcome(input, init, "throw", NoFetchInput, NoInit, NoGaxiosRequest)
  ELSE IF IsGoogleGenAIRequest(input.url)
    THEN FetchOutcome(input, init, "gaxios", NoFetchInput, NoInit,
           GaxiosRequest(
             TransformGoogleGenAIUrl(interceptorConfig[f.inst], input.url),
             PrepareRequest(interceptorConfig[f.inst], init)))
  ELSE Dispatch(originalFetch[f.inst], input, init)

\* Some code of the process calls fetch(input, init).
Fetch(input, init) ==
  /\ fetched' = Dispatch(globalFetch, input, init)
  /\ lastCall' = [op |-> "fetch", inst |-> ""]
  /\ UNCHANGED <<globalFetch, constructed, interceptorConfig, originalFetch,
                 isIntercepted, patches, calls, toFetch>>
  /\ UNCHANGED <<ssoVars, retryVars, clientVars, estVars, gateVars, shapeVars>>

\* Several interceptors in one process, constructed, activated and restored
\* in any order.
InterceptNext ==
  \/ \E i \in Instances, cfg \in BearerConfigs : Construct(i, cfg)
  \/ \E i \in Instances : Intercept(i)
  \/ \E i \in Instances : Restore(i)
  \/ \E input \in SoloFetchInputs, init \in SoloRequestInits : Fetch(input, init)

\* One interceptor, every configuration and every request.
RedirectNext ==
  \/ \E i \in SoloInstances, cfg \in InterceptorConfigs : Construct(i, cfg)
  \/ \E i \in SoloInstances : Intercept(i)
  \/ \E i \in SoloInstances : Restore(i)
  \/ Fetch(toFetch.input, toFetch.init)

PureQuiet == ShapeQuiet /\ LogQuiet /\ ConfigQuiet /\ FetchQuiet

-----------------------------------------------------------------------------
(* LlmHttpClient: generateContent, embedContent, countTokens,
   generateContentStream *)

Methods == {"generateContent", "embedContent", "countTokens", "generateContentStream"}

\* The operation name at the end of the URL.
EndpointOf(method) ==
  IF method = "generateContentStream" THEN "streamGenerateContent" ELSE method

\* A request: its contents and its model (<<>> when the field is absent).
ClientRequest(contents, model) == [contents |-> contents, model |-> model]

ClientContents ==
  { StringContents("hello world"),
    ListContents(<< ContentBlock("user", << Part("hello", FALSE, FALSE, 0) >>) >>) }

ClientRequests ==
  {ClientRequest(c, m) : c \in ClientContents, m \in {<<>>, <<"m", "2">>}}

NoClientRequest == ClientRequest(OtherContents, <<>>)

\* Values of config.accessToken: not configured, or a token.
AccessTokens == {"", "tokX"}

\* Tokens ssoAuth.getToken() may resolve with, and the errors it may throw.
SsoTokens == {"tokA"}

SsoErrors == {ConfigErrorMsg, AuthErrorMsg}

\* Values of config.maxAttempts of the client.
ClientMaxAttempts == {Defined(0), Defined(1), Defined(2)}

\* Mutant of UrlFor: countTokens ignores the model of the request.
UrlForConfiguredModel(method, request) == BuildUrl(cfgModel, EndpointOf(method))

\* The url the method builds: buildUrl(endpoint), and for countTokens the
\* same pattern with `request.model || this.config.model`.
UrlFor(method, request) ==
  IF method = "countTokens"
    THEN BuildUrl(IF request.model # <<>> THEN request.model ELSE cfgModel,
                  "countTokens")
    ELSE BuildUrl(cfgModel, EndpointOf(method))

\* One call of requestWithHandling, as the method made it: the url, the
\* Authorization header built by getAuthHeaders, and the request served.
BackendCall(method, request, token) ==
  [endpoint |-> EndpointOf(method), url |-> UrlFor(method, request),
   authorization |-> <<"Bearer ", token>>, request |-> request]

\* One call of getAuthHeaders: where the token came from, and the token
\* (NULL while ssoAuth.getToken() is pending).
AuthUse(source, token) == [source |-> source, token |-> token]

\* Outcomes of the methods.
ClientOutcome(kind, value, items, totalTokens, message) ==
  [kind |-> kind, value |-> value, items |-> items,
   totalTokens |-> totalTokens, message |-> message]

NoClientOutcome == ClientOutcome("none", "", <<>>, 0, <<>>)

\* `throw` of the error requestWithHandling threw, or of the error of
\* getAuthHeaders.
ClientThrows(message) == ClientOutcome("error", "", <<>>, 0, message)

\* A value built from response.data.
ClientData(kind, rr) == ClientOutcome(kind, rr.body, rr.items, 0, <<>>)

\* An element of the sequence: a GenerateContentResponse with the fields of
\* `value` (an object named by a string, or the items of an array).
Element(value, items) == [value |-> value, items |-> items]

\* The stream generator.
Generator(status, message) == [status |-> status, message |-> message]

NoGenerator == Generator("none", <<>>)

\* Mutant of MessageSays404: the fallback is never taken.
MessageNeverSays404(outcome) == FALSE

\* `err.message && err.message.includes('404')`
MessageSays404(outcome) ==
  outcome.message # <<>> /\ Includes(outcome.message, Text404)

\* Mutant of StreamItems: only the first item of an array is yielded.
StreamItemsFirstOnly(rr) ==
  IF rr.isArray
    THEN (IF rr.items = <<>> THEN <<>> ELSE <<Element(rr.items[1], <<>>)>>)
    ELSE IF rr.body # "" THEN <<Element(rr.body, <<>>)>> ELSE <<>>

\* What the generator yields for a response: one element per item when
\* response.data is an array, one element when it is another truthy value,
\* nothing otherwise.
StreamItems(rr) ==
  IF rr.isArray
    THEN [i \in 1..Len(rr.items) |-> Element(rr.items[i], <<>>)]
    ELSE IF rr.body # "" THEN <<Element(rr.body, <<>>)>> ELSE <<>>

ClientQuiet ==
  /\ accessToken = ""
  /\ cfgModel = <<"m", "1">>
  /\ cpc = "idle"
  /\ cop = ""
  /\ creq = NoClientRequest
  /\ cauth = <<>>
  /\ backend = <<>>
  /\ pending = <<>>
  /\ cyield = <<>>
  /\ cgen = NoGenerator
  /\ cres = NoClientOutcome

\* The constructor: any configuration; nothing called yet.
ClientInit ==
  /\ accessToken \in AccessTokens
  /\ cfgModel \in ModelTexts
  /\ cpc = "idle"
  /\ cop = ""
  /\ creq = NoClientRequest
  /\ cauth = <<>>
  /\ backend = <<>>
  /\ pending = <<>>
  /\ cyield = <<>>
  /\ cgen = NoGenerator
  /\ cres = NoClientOutcome

\* The retry state of the client's requests at construction.
ClientRetryInit ==
  /\ maxAttemptsCfg \in ClientMaxAttempts
  /\ rpc = [r \in Requests |-> "idle"]
  /\ options = [r \in Requests |-> NoOptions]
  /\ attempt = [r \in Requests |-> 0]
  /\ lastError = [r \in Requests |-> NoError]
  /\ sent = [r \in Requests |-> 0]
  /\ hist = [r \in Requests |-> <<>>]
  /\ delays = [r \in Requests |-> <<>>]
  /\ rres = [r \in Requests |-> NoOutcome]

\* Mutant of GetAuthHeaders: the configured token is never looked at.
GetAuthHeadersIgnoringConfig == cauth' = Append(cauth, AuthUse("sso", NULL))

\* getAuthHeaders up to its await: the configured token when it is truthy,
\* otherwise ssoAuth.getToken() is called.
GetAuthHeaders ==
  cauth' = Append(cauth, IF accessToken # ""
                           THEN AuthUse("config", accessToken)
                           ELSE AuthUse("sso", NULL))

\* getAuthHeaders resolves: with the configured token, or with the token
\* ssoAuth.getToken() delivered.
AuthHeadersResolve ==
  IF accessToken # ""
    THEN UNCHANGED cauth
    ELSE \E tok \in SsoTokens :
           cauth' = [cauth EXCEPT ![Len(cauth)] = AuthUse("sso", tok)]

\* A method is called: it runs up to `await this.getAuthHeaders()`.
ClientCall ==
  /\ cpc = "idle"
  /\ \E method \in Methods, request \in ClientRequests :
       /\ cop' = method
       /\ creq' = request
  /\ GetAuthHeaders
  /\ cpc' = "auth"
  /\ UNCHANGED <<accessToken, cfgModel, backend, pending, cyield, cgen, cres>>
  /\ UNCHANGED <<ssoVars, retryVars, estVars, gateVars, pureVars>>

\* Mutant of AuthResolves: generateContentStream makes its request before
\* it returns the generator.
AuthResolvesEagerStream ==
  /\ cpc = "auth"
  /\ AuthHeadersResolve
  /\ IF cop = "generateContentStream"
       THEN /\ cpc' = "generator"
            /\ cgen' = Generator("suspended", <<>>)
            /\ cres' = ClientOutcome("sequence", "", <<>>, 0, <<>>)
            /\ backend' = Append(backend,
                 BackendCall(cop, creq, cauth'[Len(cauth')].token))
            /\ RequestStartStep("r1",
                 OptionsWith(UrlFor(cop, creq),
                             <<"Bearer ", cauth'[Len(cauth')].token>>))
       ELSE /\ cpc' = "request"
            /\ backend' = Append(backend,
                 BackendCall(cop, creq, cauth'[Len(cauth')].token))
            /\ RequestStartStep("r1",
                 OptionsWith(UrlFor(cop, creq),
                             <<"Bearer ", cauth'[Len(cauth')].token>>))
            /\ UNCHANGED <<cgen, cres>>
  /\ UNCHANGED <<accessToken, cfgModel, cop, creq, pending, cyield>>
  /\ UNCHANGED <<ssoVars, estVars, gateVars, pureVars>>

\* getAuthHeaders resolves.  generateContent, embedContent and countTokens
\* build their options and call requestWithHandling, which runs up to its
\* first await; generateContentStream builds its options and returns the
\* generator, not started.
AuthResolves ==
  /\ cpc = "auth"
  /\ AuthHeadersResolve
  /\ IF cop = "generateContentStream"
       THEN /\ cpc' = "generator"
            /\ cgen' = Generator("suspended", <<>>)
            /\ cres' = ClientOutcome("sequence", "", <<>>, 0, <<>>)
            /\ UNCHANGED backend
            /\ UNCHANGED retryVars
       ELSE /\ cpc' = "request"
            /\ backend' = Append(backend,
                 BackendCall(cop, creq, cauth'[Len(cauth')].token))
            /\ RequestStartStep("r1",
                 OptionsWith(UrlFor(cop, creq),
                             <<"Bearer ", cauth'[Len(cauth')].token>>))
            /\ UNCHANGED <<cgen, cres>>
  /\ UNCHANGED <<accessToken, cfgModel, cop, creq, pending, cyield>>
  /\ UNCHANGED <<ssoVars, estVars, gateVars, pureVars>>

\* Mutant of AuthRejects: the request is made all the same, without a token.
AuthRejectsButRequests ==
  /\ cpc = "auth"
  /\ accessToken = ""
  /\ \E msg \in SsoErrors : cres' = ClientThrows(<<msg>>)
  /\ cpc' = "done"
  /\ backend' = Append(backend, BackendCall(cop, creq, NULL))
  /\ UNCHANGED <<accessToken, cfgModel, cop, creq, cauth, pending, cyield, cgen>>
  /\ UNCHANGED <<ssoVars, retryVars, estVars, gateVars, pureVars>>

\* ssoAuth.getToken() rejects: so do getAuthHeaders and the method, before
\* any request is built.
AuthRejects ==
  /\ cpc = "auth"
  /\ accessToken = ""
  /\ \E msg \in SsoErrors : cres' = ClientThrows(<<msg>>)
  /\ cpc' = "done"
  /\ UNCHANGED <<accessToken, cfgModel, cop, creq, cauth, backend, pending,
                 cyield, cgen>>
  /\ UNCHANGED <<ssoVars, retryVars, estVars, gateVars, pureVars>>

\* requestWithHandling has settled and the method continues: the response
\* data is returned; an error is thrown again, except that countTokens
\* returns the local estimate when the error's message includes '404'.
RequestSettles ==
  /\ cpc = "request"
  /\ rpc["r1"] = "done"
  /\ cres' =
       IF rres["r1"].kind = "response"
         THEN ClientData(IF cop = "generateContent" THEN "response" ELSE "data",
                         rres["r1"])
         ELSE IF cop = "countTokens" /\ MessageSays404(rres["r1"])
           THEN ClientOutcome("count", "", <<>>,
                              LlmEstimateTokenCount(creq.contents), <<>>)
           ELSE ClientThrows(rres["r1"].message)
  /\ cpc' = "done"
  /\ UNCHANGED <<accessToken, cfgModel, cop, creq, cauth, backend, pending,
                 cyield, cgen>>
  /\ UNCHANGED <<ssoVars, retryVars, estVars, gateVars, pureVars>>

\* The consumer pulls from the generator for the first time: its body
\* starts and calls requestWithHandling, which runs up to its first await.
StreamFirstPull ==
  /\ cpc = "generator"
  /\ cpc' = "streamRequest"
  /\ cgen' = Generator("running", <<>>)
  /\ backend' = Append(backend, BackendCall(cop, creq, cauth[Len(cauth)].token))
  /\ RequestStartStep("r1",
       OptionsWith(UrlFor(cop, creq), <<"Bearer ", cauth[Len(cauth)].token>>))
  /\ UNCHANGED <<accessToken, cfgModel, cop, creq, cauth, pending, cyield, cres>>
  /\ UNCHANGED <<ssoVars, estVars, gateVars, pureVars>>

\* requestWithHandling has settled inside the generator.  A response: its
\* first element is yielded, or the generator ends when there is none.  An
\* error whose message includes '404': generateContent(request) is called
\* and runs up to its `await this.getAuthHeaders()`.  Another error is
\* thrown to the consumer.
StreamSettles ==
  /\ cpc = "streamRequest"
  /\ rpc["r1"] = "done"
  /\ IF rres["r1"].kind = "response"
       THEN LET elements == StreamItems(rres["r1"])
            IN IF elements = <<>>
                 THEN /\ cpc' = "done"
                      /\ cgen' = Generator("ended", <<>>)
                      /\ UNCHANGED <<cyield, pending, cauth>>
                 ELSE /\ cpc' = "yielded"
                      /\ cgen' = Generator("suspended", <<>>)
                      /\ cyield' = Append(cyield, Head(elements))
                      /\ pending' = Tail(elements)
                      /\ UNCHANGED cauth
       ELSE IF MessageSays404(rres["r1"])
         THEN /\ cpc' = "fallbackAuth"
              /\ GetAuthHeaders
              /\ UNCHANGED <<cyield, pending, cgen>>
         ELSE /\ cpc' = "done"
              /\ cgen' = Generator("threw", rres["r1"].message)
              /\ UNCHANGED <<cyield, pending, cauth>>
  /\ UNCHANGED <<accessToken, cfgModel, cop, creq, backend, cres>>
  /\ UNCHANGED <<ssoVars, retryVars, estVars, gateVars, pureVars>>

\* Inside the fallback generateContent: getAuthHeaders resolves, the options
\* are built and requestWithHandling is called.
FallbackAuthResolves ==
  /\ cpc = "fallbackAuth"
  /\ AuthHeadersResolve
  /\ cpc' = "fallbackRequest"
  /\ backend' = Append(backend,
       BackendCall("generateContent", creq, cauth'[Len(cauth')].token))
  /\ RequestStartStep("r2",
       OptionsWith(UrlFor("generateContent", creq),
                   <<"Bearer ", cauth'[Len(cauth')].token>>))
  /\ UNCHANGED <<accessToken, cfgModel, cop, creq, pending, cyield, cgen, cres>>
  /\ UNCHANGED <<ssoVars, estVars, gateVars, pureVars>>

\* Inside the fallback generateContent: getAuthHeaders rejects; the error
\* leaves the generator.
FallbackAuthRejects ==
  /\ cpc = "fallbackAuth"
  /\ accessToken = ""
  /\ \E msg \in SsoErrors : cgen' = Generator("threw", <<msg>>)
  /\ cpc' = "done"
  /\ UNCHANGED <<accessToken, cfgModel, cop, creq, cauth, backend, pending,
                 cyield, cres>>
  /\ UNCHANGED <<ssoVars, retryVars, estVars, gateVars, pureVars>>

\* Mutant of FallbackSettles: an error of the fallback call ends the
\* sequence silently.
FallbackSettlesSilently ==
  /\ cpc = "fallbackRequest"
  /\ rpc["r2"] = "done"
  /\ IF rres["r2"].kind = "response"
       THEN /\ cpc' = "yielded"
            /\ cgen' = Generator("suspended", <<>>)
            /\ cyield' = Append(cyield, Element(rres["r2"].body, rres["r2"].items))
       ELSE /\ cpc' = "done"
            /\ cgen' = Generator("ended", <<>>)
            /\ UNCHANGED cyield
  /\ UNCHANGED <<accessToken, cfgModel, cop, creq, cauth, backend, pending, cres>>
  /\ UNCHANGED <<ssoVars, retryVars, estVars, gateVars, pureVars>>

\* The fallback generateContent settles: its result is yielded, or its
\* error leaves the generator.
FallbackSettles ==
  /\ cpc = "fallbackRequest"
  /\ rpc["r2"] = "done"
  /\ IF rres["r2"].kind = "response"
       THEN /\ cpc' = "yielded"
            /\ cgen' = Generator("suspended", <<>>)
            /\ cyield' = Append(cyield, Element(rres["r2"].body, rres["r2"].items))
       ELSE /\ cpc' = "done"
            /\ cgen' = Generator("threw", rres["r2"].message)
            /\ UNCHANGED cyield
  /\ UNCHANGED <<accessToken, cfgModel, cop, creq, cauth, backend, pending, cres>>
  /\ UNCHANGED <<ssoVars, retryVars, estVars, gateVars, pureVars>>

\* The consumer pulls again: the next item of the array is yielded, or the
\* generator returns.
StreamNextPull ==
  /\ cpc = "yielded"
  /\ IF pending # <<>>
       THEN /\ cyield' = Append(cyield, Head(pending))
            /\ pending' = Tail(pending)
            /\ UNCHANGED <<cpc, cgen>>
       ELSE /\ cpc' = "done"
            /\ cgen' = Generator("ended", <<>>)
            /\ UNCHANGED <<cyield, pending>>
  /\ UNCHANGED <<accessToken, cfgModel, cop, creq, cauth, backend, cres>>
  /\ UNCHANGED <<ssoVars, retryVars, estVars, gateVars, pureVars>>

\* The caller has consumed the outcome; the locals of the call, those of
\* its requests included, are gone.
ClientEnd ==
  /\ cpc = "done"
  /\ cpc' = "idle"
  /\ cop' = ""
  /\ creq' = NoClientRequest
  /\ cauth' = <<>>
  /\ backend' = <<>>
  /\ pending' = <<>>
  /\ cyield' = <<>>
  /\ cgen' = NoGenerator
  /\ cres' = NoClientOutcome
  /\ rpc' = [r \in Requests |-> "idle"]
  /\ options' = [r \in Requests |-> NoOptions]
  /\ attempt' = [r \in Requests |-> 0]
  /\ lastError' = [r \in Requests |-> NoError]
  /\ sent' = [r \in Requests |-> 0]
  /\ hist' = [r \in Requests |-> <<>>]
  /\ delays' = [r \in Requests |-> <<>>]
  /\ rres' = [r \in Requests |-> NoOutcome]
  /\ UNCHANGED <<accessToken, cfgModel, maxAttemptsCfg>>
  /\ UNCHANGED <<ssoVars, estVars, gateVars, pureVars>>

ClientNext ==
  \/ ClientCall
  \/ AuthResolves
  \/ AuthRejects
  \/ RequestSettles
  \/ StreamFirstPull
  \/ StreamSettles
  \/ FallbackAuthResolves
  \/ FallbackAuthRejects
  \/ FallbackSettles
  \/ StreamNextPull
  \/ \E r \in Requests : AttemptSucceeds(r)
  \/ \E r \in Requests : AttemptFails(r)
  \/ \E r \in Requests : BackoffElapsed(r)
  \/ ClientEnd

-----------------------------------------------------------------------------
(* EnterpriseContentGenerator *)

Clients == {"k1", "k2"}

\* The two capabilities that have a fallback.
FallbackEndpoints == {"generateContentStream", "countTokens"}

EndpointConfigs ==
  [generateContent : BOOLEAN, generateContentStream : BOOLEAN,
   countTokens : BOOLEAN, embedContent : BOOLEAN]

\* Contents carried by the requests the clients pass.
GateContents ==
  { StringContents("hello world"),
    ListContents(<< ContentBlock("user", << Part("hello", FALSE, FALSE, 0),
                                           Part("", TRUE, FALSE, 0) >>),
                    BareItem("abc") >>),
    OtherContents }

GateRequest(contents) == [contents |-> contents]

GateRequests == {GateRequest(c) : c \in GateContents}

NoRequest == GateRequest(OtherContents)

\* Outcomes of the gate's methods and of the wrapped generator's.
Outcome(kind, value, totalTokens) ==
  [kind |-> kind, value |-> value, totalTokens |-> totalTokens]

NoGateOutcome == Outcome("none", "", 0)

GenerateDisabledMsg ==
  "generateContent endpoint is not available in this enterprise environment"

EmbedDisabledMsg ==
  "embedContent endpoint is not available in this enterprise environment"

\* What a method of the wrapped generator may resolve with.
WrappedValues(method) ==
  CASE method = "generateContent" ->
         {Outcome("response", "respA", 0), Outcome("response", "respB", 0)}
    [] method = "generateContentStream" -> {Outcome("stream", "wrappedStream", 0)}
    [] method = "countTokens" -> {Outcome("count", "", 42)}
    [] method = "embedContent" -> {Outcome("embedding", "embA", 0)}

WrappedCall(method, request) == [method |-> method, request |-> request]

GateQuiet ==
  /\ endpointConfig = [generateContent |-> TRUE, generateContentStream |-> FALSE,
                       countTokens |-> FALSE, embedContent |-> TRUE]
  /\ warningsShown = {}
  /\ warnedAt = [e \in FallbackEndpoints |-> {}]
  /\ disabledCalls = [e \in FallbackEndpoints |-> 0]
  /\ gpc = [k \in Clients |-> "idle"]
  /\ gop = [k \in Clients |-> ""]
  /\ greq = [k \in Clients |-> NoRequest]
  /\ wrappedCalls = [k \in Clients |-> <<>>]
  /\ wrappedRes = [k \in Clients |-> NoGateOutcome]
  /\ yielded = [k \in Clients |-> <<>>]
  /\ gres = [k \in Clients |-> NoGateOutcome]

\* The constructor: any availability configuration, no warning shown yet.
GateInit ==
  /\ endpointConfig \in EndpointConfigs
  /\ warningsShown = {}
  /\ warnedAt = [e \in FallbackEndpoints |-> {}]
  /\ disabledCalls = [e \in FallbackEndpoints |-> 0]
  /\ gpc = [k \in Clients |-> "idle"]
  /\ gop = [k \in Clients |-> ""]
  /\ greq = [k \in Clients |-> NoRequest]
  /\ wrappedCalls = [k \in Clients |-> <<>>]
  /\ wrappedRes = [k \in Clients |-> NoGateOutcome]
  /\ yielded = [k \in Clients |-> <<>>]
  /\ gres = [k \in Clients |-> NoGateOutcome]

\* Mutant of ShowWarningOnce: one flag shared by all endpoints.
ShowWarningOnceShared(endpoint) ==
  /\ warnedAt' =
       IF warningsShown = {}
         THEN [warnedAt EXCEPT ![endpoint] = @ \cup {disabledCalls[endpoint] + 1}]
         ELSE warnedAt
  /\ warningsShown' = warningsShown \cup {endpoint}
  /\ disabledCalls' = [disabledCalls EXCEPT ![endpoint] = @ + 1]

\* showWarningOnce(endpoint, message), called on the disabled path of
\* `endpoint`: console.warn unless the endpoint is in warningsShown, then
\* the endpoint is added to the set.
ShowWarningOnce(endpoint) ==
  /\ warnedAt' =
       IF endpoint \notin warningsShown
         THEN [warnedAt EXCEPT ![endpoint] = @ \cup {disabledCalls[endpoint] + 1}]
         ELSE warnedAt
  /\ warningsShown' = warningsShown \cup {endpoint}
  /\ disabledCalls' = [disabledCalls EXCEPT ![endpoint] = @ + 1]

\* The call reaches `return this.wrappedGenerator.<method>(request)` or
\* `await this.wrappedGenerator.<method>(request)`.
Delegate(k, method, request) ==
  /\ wrappedCalls' = [wrappedCalls EXCEPT ![k] = Append(@, WrappedCall(method, request))]
  /\ gpc' = [gpc EXCEPT ![k] = "awaitWrapped"]
  /\ UNCHANGED gres

\* The call throws `new Error(msg)` before anything else happens.
Refuse(k, msg) ==
  /\ gpc' = [gpc EXCEPT ![k] = "done"]
  /\ gres' = [gres EXCEPT ![k] = Outcome("error", msg, 0)]
  /\ UNCHANGED wrappedCalls

\* Mutant of GateGenerateContent: the availability flag is not consulted.
GateGenerateContentUngated(k) ==
  /\ gpc[k] = "idle"
  /\ \E request \in GateRequests :
       /\ gop' = [gop EXCEPT ![k] = "generateContent"]
       /\ greq' = [greq EXCEPT ![k] = request]
       /\ Delegate(k, "generateContent", request)
  /\ UNCHANGED <<endpointConfig, warningsShown, warnedAt, disabledCalls,
                 wrappedRes, yielded>>
  /\ UNCHANGED <<ssoVars, retryVars, clientVars, estVars, pureVars>>

\* generateContent(request)
GateGenerateContent(k) ==
  /\ gpc[k] = "idle"
  /\ \E request \in GateRequests :
       /\ gop' = [gop EXCEPT ![k] = "generateContent"]
       /\ greq' = [greq EXCEPT ![k] = request]
       /\ IF ~endpointConfig.generateContent
            THEN Refuse(k, GenerateDisabledMsg)
            ELSE Delegate(k, "generateContent", request)
  /\ UNCHANGED <<endpointConfig, warningsShown, warnedAt, disabledCalls,
                 wrappedRes, yielded>>
  /\ UNCHANGED <<ssoVars, retryVars, clientVars, estVars, pureVars>>

\* embedContent(request)
GateEmbedContent(k) ==
  /\ gpc[k] = "idle"
  /\ \E request \in GateRequests :
       /\ gop' = [gop EXCEPT ![k] = "embedContent"]
       /\ greq' = [greq EXCEPT ![k] = request]
       /\ IF ~endpointConfig.embedContent
            THEN Refuse(k, EmbedDisabledMsg)
            ELSE Delegate(k, "embedContent", request)
  /\ UNCHANGED <<endpointConfig, warningsShown, warnedAt, disabledCalls,
                 wrappedRes, yielded>>
  /\ UNCHANGED <<ssoVars, retryVars, clientVars, estVars, pureVars>>

\* Mutant of GateGenerateContentStream: the fallback asks the wrapped
\* generator for a stream as well.
GateGenerateContentStreamNoFallback(k) ==
  /\ gpc[k] = "idle"
  /\ \E request \in GateRequests :
       /\ gop' = [gop EXCEPT ![k] = "generateContentStream"]
       /\ greq' = [greq EXCEPT ![k] = request]
       /\ IF ~endpointConfig.generateContentStream
            THEN /\ disabledCalls["generateContentStream"] < MaxDisabledCalls
                 /\ ShowWarningOnce("generateContentStream")
                 /\ Delegate(k, "generateContentStream", request)
            ELSE /\ Delegate(k, "generateContentStream", request)
                 /\ UNCHANGED <<warningsShown, warnedAt, disabledCalls>>
  /\ UNCHANGED <<endpointConfig, wrappedRes, yielded>>
  /\ UNCHANGED <<ssoVars, retryVars, clientVars, estVars, pureVars>>

\* generateContentStream(request), up to its first await.
GateGenerateContentStream(k) ==
  /\ gpc[k] = "idle"
  /\ \E request \in GateRequests :
       /\ gop' = [gop EXCEPT ![k] = "generateContentStream"]
       /\ greq' = [greq EXCEPT ![k] = request]
       /\ IF ~endpointConfig.generateContentStream
            THEN /\ disabledCalls["generateContentStream"] < MaxDisabledCalls
                 /\ ShowWarningOnce("generateContentStream")
                 /\ Delegate(k, "generateContent", request)
            ELSE /\ Delegate(k, "generateContentStream", request)
                 /\ UNCHANGED <<warningsShown, warnedAt, disabledCalls>>
  /\ UNCHANGED <<endpointConfig, wrappedRes, yielded>>
  /\ UNCHANGED <<ssoVars, retryVars, clientVars, estVars, pureVars>>

\* Mutant of GateCountTokens: the estimate is made of the text form of the
\* request instead of its contents.
GateCountTokensOfRequest(k) ==
  /\ gpc[k] = "idle"
  /\ \E request \in GateRequests :
       /\ gop' = [gop EXCEPT ![k] = "countTokens"]
       /\ greq' = [greq EXCEPT ![k] = request]
       /\ IF ~endpointConfig.countTokens
            THEN /\ disabledCalls["countTokens"] < MaxDisabledCalls
                 /\ ShowWarningOnce("countTokens")
                 /\ gpc' = [gpc EXCEPT ![k] = "done"]
                 /\ gres' = [gres EXCEPT ![k] =
                      Outcome("count", "",
                              EstimateTokenCount(StringContents("[object Object]")))]
                 /\ UNCHANGED wrappedCalls
            ELSE /\ Delegate(k, "countTokens", request)
                 /\ UNCHANGED <<warningsShown, warnedAt, disabledCalls>>
  /\ UNCHANGED <<endpointConfig, wrappedRes, yielded>>
  /\ UNCHANGED <<ssoVars, retryVars, clientVars, estVars, pureVars>>

\* countTokens(request)
GateCountTokens(k) ==
  /\ gpc[k] = "idle"
  /\ \E request \in GateRequests :
       /\ gop' = [gop EXCEPT ![k] = "countTokens"]
       /\ greq' = [greq EXCEPT ![k] = request]
       /\ IF ~endpointConfig.countTokens
            THEN /\ disabledCalls["countTokens"] < MaxDisabledCalls
                 /\ ShowWarningOnce("countTokens")
                 /\ gpc' = [gpc EXCEPT ![k] = "done"]
                 /\ gres' = [gres EXCEPT ![k] =
                      Outcome("count", "", EstimateTokenCount(request.contents))]
                 /\ UNCHANGED wrappedCalls
            ELSE /\ Delegate(k, "countTokens", request)
                 /\ UNCHANGED <<warningsShown, warnedAt, disabledCalls>>
  /\ UNCHANGED <<endpointConfig, wrappedRes, yielded>>
  /\ UNCHANGED <<ssoVars, retryVars, clientVars, estVars, pureVars>>

\* The streaming fallback is waiting for wrappedGenerator.generateContent.
InStreamFallback(k) ==
  gop[k] = "generateContentStream" /\ ~endpointConfig.generateContentStream

\* The awaited call of the wrapped generator resolves.  A delegating method
\* resolves with the same value; the streaming fallback keeps the response
\* and returns the one-element generator, not yet started.
WrappedResolves(k) ==
  /\ gpc[k] = "awaitWrapped"
  /\ \E v \in WrappedValues(wrappedCalls[k][Len(wrappedCalls[k])].method) :
       /\ wrappedRes' = [wrappedRes EXCEPT ![k] = v]
       /\ IF InStreamFallback(k)
            THEN /\ gpc' = [gpc EXCEPT ![k] = "sequence"]
                 /\ gres' = [gres EXCEPT ![k] = Outcome("sequence", "", 0)]
            ELSE /\ gpc' = [gpc EXCEPT ![k] = "done"]
                 /\ gres' = [gres EXCEPT ![k] = v]
  /\ UNCHANGED <<endpointConfig, warningsShown, warnedAt, disabledCalls, gop,
                 greq, wrappedCalls, yielded>>
  /\ UNCHANGED <<ssoVars, retryVars, clientVars, estVars, pureVars>>

\* The awaited call of the wrapped generator rejects: so does the method.
WrappedRejects(k) ==
  /\ gpc[k] = "awaitWrapped"
  /\ wrappedRes' = [wrappedRes EXCEPT ![k] = Outcome("error", "wrapped failure", 0)]
  /\ gpc' = [gpc EXCEPT ![k] = "done"]
  /\ gres' = [gres EXCEPT ![k] = Outcome("error", "wrapped failure", 0)]
  /\ UNCHANGED <<endpointConfig, warningsShown, warnedAt, disabledCalls, gop,
                 greq, wrappedCalls, yielded>>
  /\ UNCHANGED <<ssoVars, retryVars, clientVars, estVars, pureVars>>

\* The consumer calls next() on the fallback generator
\* `async function* () { yield response; }`: the first call yields the
\* response, the second finds the generator finished.
SequenceNext(k) ==
  /\ gpc[k] = "sequence"
  /\ IF yielded[k] = <<>>
       THEN /\ yielded' = [yielded EXCEPT ![k] = Append(@, wrappedRes[k])]
            /\ UNCHANGED gpc
       ELSE /\ gpc' = [gpc EXCEPT ![k] = "done"]
            /\ UNCHANGED yielded
  /\ UNCHANGED <<endpointConfig, warningsShown, warnedAt, disabledCalls, gop,
                 greq, wrappedCalls, wrappedRes, gres>>
  /\ UNCHANGED <<ssoVars, retryVars, clientVars, estVars, pureVars>>

\* The caller has consumed the outcome; the locals of the call are gone.
GateEnd(k) ==
  /\ gpc[k] = "done"
  /\ gpc' = [gpc EXCEPT ![k] = "idle"]
  /\ gop' = [gop EXCEPT ![k] = ""]
  /\ greq' = [greq EXCEPT ![k] = NoRequest]
  /\ wrappedCalls' = [wrappedCalls EXCEPT ![k] = <<>>]
  /\ wrappedRes' = [wrappedRes EXCEPT ![k] = NoGateOutcome]
  /\ yielded' = [yielded EXCEPT ![k] = <<>>]
  /\ gres' = [gres EXCEPT ![k] = NoGateOutcome]
  /\ UNCHANGED <<endpointConfig, warningsShown, warnedAt, disabledCalls>>
  /\ UNCHANGED <<ssoVars, retryVars, clientVars, estVars, pureVars>>

GateNext ==
  \/ \E k \in Clients : GateGenerateContent(k)
  \/ \E k \in Clients : GateEmbedContent(k)
  \/ \E k \in Clients : GateGenerateContentStream(k)
  \/ \E k \in Clients : GateCountTokens(k)
  \/ \E k \in Clients : WrappedResolves(k)
  \/ \E k \in Clients : WrappedRejects(k)
  \/ \E k \in Clients : SequenceNext(k)
  \/ \E k \in Clients : GateEnd(k)

-----------------------------------------------------------------------------
(* Specifications *)

\* getToken calls against the cache file and the SSO endpoint.
SsoSysInit ==
  SsoInit /\ RetryQuiet /\ ClientQuiet /\ EstQuiet /\ GateQuiet
    /\ PureQuiet

\* One logical request through requestWithHandling at a time.
RetrySysInit ==
  RetryInit /\ SsoQuiet /\ ClientQuiet /\ EstQuiet /\ GateQuiet
    /\ PureQuiet

SpecRetry == RetrySysInit /\ [][RetryNext]_vars

\* The same, with what the claim of termination assumes of the platform:
\* every call of gaxios.request settles, and every timer fires.
AttemptSettles == \E r \in SoloRequests : AttemptSucceeds(r) \/ AttemptFails(r)

TimerFires == \E r \in SoloRequests : BackoffElapsed(r)

SpecRetryFair ==
  RetrySysInit /\ [][RetryNext]_vars /\ WF_vars(AttemptSettles)
    /\ WF_vars(TimerFires)

\* Two clients calling the methods of one EnterpriseContentGenerator.
GateSysInit ==
  GateInit /\ SsoQuiet /\ RetryQuiet /\ ClientQuiet /\ EstQuiet
    /\ PureQuiet

SpecGate == GateSysInit /\ [][GateNext]_vars

SpecSso == SsoSysInit /\ [][SsoNext]_vars

\* getToken calls against the SsoAuthClient defined in utils/fetch.ts.
SpecSsoAxios == SsoSysInit /\ [][AxiosSsoNext]_vars

\* Two concurrent getToken calls.
PairSysInit ==
  PairSsoInit /\ RetryQuiet /\ ClientQuiet /\ EstQuiet /\ GateQuiet
    /\ PureQuiet

SpecSsoPair == PairSysInit /\ [][PairSsoNext]_vars

\* One call at a time of a method of LlmHttpClient.
ClientSysInit ==
  ClientInit /\ ClientRetryInit /\ SsoQuiet /\ EstQuiet /\ GateQuiet
    /\ PureQuiet

SpecClient == ClientSysInit /\ [][ClientNext]_vars

\* The two estimators applied to one contents value.
PairRetrySysInit ==
  PairRetryInit /\ SsoQuiet /\ ClientQuiet /\ EstQuiet /\ GateQuiet
    /\ PureQuiet

SpecRetryPair == PairRetrySysInit /\ [][PairRetryNext]_vars

ShapeSysInit ==
  ShapeInit /\ LogQuiet /\ ConfigQuiet /\ SsoQuiet /\ RetryQuiet /\ ClientQuiet
    /\ EstQuiet /\ GateQuiet /\ FetchQuiet

SpecShape == ShapeSysInit /\ [][ShapeNext]_vars

LogSysInit ==
  LogInit /\ ShapeQuiet /\ ConfigQuiet /\ SsoQuiet /\ RetryQuiet /\ ClientQuiet
    /\ EstQuiet /\ GateQuiet /\ FetchQuiet

SpecLog == LogSysInit /\ [][LogNext]_vars

ConfigSysInit ==
  ConfigInit /\ ShapeQuiet /\ LogQuiet /\ SsoQuiet /\ RetryQuiet /\ ClientQuiet
    /\ EstQuiet /\ GateQuiet /\ FetchQuiet

SpecConfig == ConfigSysInit /\ [][ConfigNext]_vars

InterceptSysInit ==
  InterceptInit /\ ShapeQuiet /\ LogQuiet /\ ConfigQuiet /\ SsoQuiet
    /\ RetryQuiet /\ ClientQuiet /\ EstQuiet /\ GateQuiet

SpecIntercept == InterceptSysInit /\ [][InterceptNext]_vars

RedirectSysInit ==
  RedirectInit /\ ShapeQuiet /\ LogQuiet /\ ConfigQuiet /\ SsoQuiet
    /\ RetryQuiet /\ ClientQuiet /\ EstQuiet /\ GateQuiet

SpecRedirect == RedirectSysInit /\ [][RedirectNext]_vars

EstSysInit ==
  EstInit /\ SsoQuiet /\ RetryQuiet /\ ClientQuiet /\ GateQuiet
    /\ PureQuiet

SpecEstimate == EstSysInit /\ [][EstNext]_vars

-----------------------------------------------------------------------------
(* Claims about SsoAuthClient *)

\* Positions of getToken after the cache has been consulted.
AfterCheck == {"awaitSso", "openFile", "writeData", "written", "done"}

\* The content readFile delivered is a credential still valid at the moment
\* getTokenFromCache compared it with Date.now().
SawValid(c) == seen[c].kind = "cred" /\ seen[c].expires_at > checkedAt[c]

\* The content readFile delivered is absent, unparseable or expired.
SawMiss(c) ==
  \/ seen[c].kind \in {"absent", "garbage", "empty", "mixed"}
  \/ seen[c].kind = "cred" /\ seen[c].expires_at <= checkedAt[c]

\* getToken answered from the cache: the cached token, no POST, no write.
ServedFromCache(c) ==
  /\ spc[c] = "done"
  /\ sres[c] = TokenResult(seen[c].token)
  /\ posts[c] = 0
  /\ wrote[c] = <<>>

\* C1 as stated: whenever the cache file holds a credential whose expires_at
\* is greater than the current time, getToken returns exactly that cached
\* token, sends no request to the SSO endpoint and writes nothing.
C1_AnyValidCredentialServed ==
  \A c \in Callers :
    (spc[c] \in AfterCheck /\ SawValid(c)) => ServedFromCache(c)

\* C1 (amended): whenever the cache file holds a credential with a non-empty
\* token whose expires_at is greater than the current time, getToken returns
\* exactly that cached token, sends no request to the SSO endpoint and writes
\* nothing to the cache.
C1_ValidCacheServed ==
  \A c \in Callers :
    (spc[c] \in AfterCheck /\ SawValid(c) /\ seen[c].token # "")
      => ServedFromCache(c)

\* A call that found the unexpired credential "tokA" and returned it.
C1_Witness ==
  \E c \in Callers :
    /\ spc[c] = "done"
    /\ SawValid(c)
    /\ seen[c].token = "tokA"
    /\ sres[c] = TokenResult("tokA")
    /\ posts[c] = 0

\* C2: whenever the cache is absent, unparseable or expired
\* (expires_at <= now), getToken sends exactly one POST to the SSO endpoint
\* (and never more than one), and a call that returns id_token after a
\* successful response has written {token: id_token, expires_at: now +
\* expires_in * 1000} to the cache, once, before returning.
C2_MissPostsOnceAndPersists ==
  \A c \in Callers :
    /\ posts[c] <= 1
    /\ (spc[c] \in AfterCheck /\ SawMiss(c)) => posts[c] = 1
    /\ (spc[c] \in {"written", "done"} /\ posts[c] = 1 /\ sres[c].kind # "error")
         => wrote[c] = << [kind |-> "cred",
                           token |-> resp[c].id_token,
                           expires_at |-> respAt[c] + resp[c].expires_in * 1000] >>
    /\ (spc[c] = "done" /\ posts[c] = 1 /\ sres[c].kind = "token")
         => sres[c].value = resp[c].id_token

\* A call that found an expired credential, posted once, stored the fresh
\* credential with a one second lifetime and returned "tokB".
C2_Witness ==
  \E c \in Callers :
    /\ spc[c] = "done"
    /\ seen[c].kind = "cred"
    /\ SawMiss(c)
    /\ posts[c] = 1
    /\ resp[c] = [id_token |-> "tokB", expires_in |-> 1]
    /\ sres[c] = TokenResult("tokB")
    /\ Len(wrote[c]) = 1

-----------------------------------------------------------------------------
(* Claims about LlmHttpClient.requestWithHandling *)

\* The attempt budget as configured: config.maxAttempts, 3 when left out.
Budget == IF maxAttemptsCfg.defined THEN maxAttemptsCfg.value ELSE 3

\* A transport attempt succeeded: a 2xx response.
Succeeded(o) == o.settle = "resolve" /\ o.status \in 200..299

\* A retryable failure: no response received (network failure, timeout), or
\* a status in 500..599.
RetryableFailure(o) ==
  \/ o.settle = "reject" /\ ~o.hasResponse
  \/ o.hasResponse /\ o.status \in 500..599

\* A failure with a client-error response.
ClientError(o) == o.settle = "reject" /\ o.hasResponse /\ o.status \in 400..499

AllRetryableFailures(h) == \A i \in 1..Len(h) : RetryableFailure(h[i])

\* C3: when the first k-1 transport attempts fail with a retryable failure
\* and attempt k (k <= maxAttempts) succeeds, the call returns the response
\* of attempt k after exactly k attempts; and the call never gives up after
\* fewer than maxAttempts retryable failures, so that attempt k is made.
C3_RetryThenSuccess ==
  \A r \in Requests :
    /\ (/\ rpc[r] = "done"
        /\ hist[r] # <<>>
        /\ Succeeded(hist[r][Len(hist[r])])
        /\ AllRetryableFailures(SubSeq(hist[r], 1, Len(hist[r]) - 1)))
         => /\ rres[r].kind = "response"
            /\ rres[r].status = hist[r][Len(hist[r])].status
            /\ rres[r].body = hist[r][Len(hist[r])].body
            /\ sent[r] = Len(hist[r])
            /\ Len(hist[r]) <= Budget
    /\ (rpc[r] = "done" /\ AllRetryableFailures(hist[r]))
         => Len(hist[r]) >= Budget

\* 500, 500, success: the success result after exactly 3 attempts.
C3_Witness ==
  \E r \in Requests :
    /\ rpc[r] = "done"
    /\ hist[r] = <<RejectedHttp(500), RejectedHttp(500), Resolved(200, "bodyA")>>
    /\ rres[r].kind = "response"
    /\ rres[r].body = "bodyA"
    /\ sent[r] = 3

\* C4: a transport attempt that fails with a client-error response (4xx) is
\* never followed by another attempt: the call ends with an error at once,
\* without a backoff delay; a first attempt answered 400 is the only attempt.
C4_ClientErrorNotRetried ==
  \A r \in Requests :
    /\ \A i \in 1..Len(hist[r]) :
         ClientError(hist[r][i])
           => /\ i = Len(hist[r])
              /\ sent[r] = i
              /\ rpc[r] = "done"
              /\ rres[r].kind = "error"
              /\ Len(delays[r]) = i - 1
    /\ (hist[r] # <<>> /\ ClientError(hist[r][1]))
         => sent[r] = 1 /\ delays[r] = <<>>

\* A call whose first attempt was answered 400: one attempt, no delay.
C4_Witness ==
  \E r \in Requests :
    /\ rpc[r] = "done"
    /\ hist[r] = <<RejectedHttp(400)>>
    /\ sent[r] = 1
    /\ delays[r] = <<>>
    /\ rres[r].kind = "error"

\* C5: for every configured maxAttempts (3 when left out) the call makes at
\* most maxAttempts transport attempts; when every attempt fails with a
\* retryable failure it makes exactly maxAttempts attempts, and the error is
\* raised only once the call is over, after the last of them.
C5_AttemptBudget ==
  \A r \in Requests :
    /\ sent[r] <= Budget
    /\ (rpc[r] = "done" /\ AllRetryableFailures(hist[r]))
         => /\ sent[r] = Budget
            /\ Len(hist[r]) = Budget
            /\ rres[r].kind = "error"
    /\ rres[r].kind = "error" => rpc[r] = "done" /\ Len(hist[r]) = sent[r]

\* With maxAttempts left out: three retryable failures, then the error.
C5_Witness ==
  \E r \in Requests :
    /\ ~maxAttemptsCfg.defined
    /\ rpc[r] = "done"
    /\ hist[r] = <<RejectedNet("ECONNRESET"), RejectedHttp(599),
                   RejectedNet("ECONNABORTED")>>
    /\ sent[r] = 3
    /\ rres[r].kind = "error"

\* C6: the delay awaited after the n-th failed retryable attempt
\* (n < maxAttempts) is 300 * 2^(n-1) ms (300, 600, 1200, ...); no delay is
\* awaited after the final attempt or after a non-retryable failure.
C6_ExponentialBackoff ==
  \A r \in Requests :
    /\ delays[r] = [n \in 1..Len(delays[r]) |-> 300 * 2 ^ (n - 1)]
    /\ \A n \in 1..Len(delays[r]) :
         /\ n < Budget
         /\ n <= Len(hist[r])
         /\ RetryableFailure(hist[r][n])
    /\ rpc[r] \in {"attempting", "backoff"} => Len(delays[r]) = Len(hist[r])
    /\ (rpc[r] = "done" /\ hist[r] # <<>>) => Len(delays[r]) = Len(hist[r]) - 1
    /\ (rpc[r] = "done" /\ hist[r] = <<>>) => delays[r] = <<>>

\* Three failed retryable attempts with the delays 300, 600 and 1200 ms.
C6_Witness ==
  \E r \in Requests :
    /\ Len(hist[r]) >= 3
    /\ delays[r] = <<300, 600, 1200>>

-----------------------------------------------------------------------------
(* Claims about EnterpriseContentGenerator *)

\* Client k is inside, or has just finished, a call of `method`.
Calling(k, method) == gpc[k] # "idle" /\ gop[k] = method

\* The call of client k was refused with the error message msg and never
\* reached the wrapped generator.
Refused(k, msg) ==
  /\ gpc[k] = "done"
  /\ gres[k] = [kind |-> "error", value |-> msg, totalTokens |-> 0]
  /\ wrappedCalls[k] = <<>>

\* C7: when the flag generateContent (respectively embedContent) is false,
\* every call of generateContent (respectively embedContent) fails with the
\* 'not available' error, for every request, and the wrapped generator is
\* never invoked by it.
C7_DisabledEndpointRefuses ==
  \A k \in Clients :
    /\ (Calling(k, "generateContent") /\ ~endpointConfig.generateContent)
         => Refused(k, "generateContent endpoint is not available in this enterprise environment")
    /\ (Calling(k, "embedContent") /\ ~endpointConfig.embedContent)
         => Refused(k, "embedContent endpoint is not available in this enterprise environment")

\* With both flags false, one client refused by generateContent and the
\* other by embedContent.
C7_Witness ==
  /\ ~endpointConfig.generateContent
  /\ ~endpointConfig.embedContent
  /\ Calling("k1", "generateContent")
  /\ Refused("k1", GenerateDisabledMsg)
  /\ greq["k1"].contents.kind = "list"
  /\ Calling("k2", "embedContent")
  /\ Refused("k2", EmbedDisabledMsg)

\* C8: when the flag countTokens is false, countTokens returns
\* {totalTokens: estimate(request.contents)} for every request (3 for
\* 'hello world') and never invokes the wrapped generator.
C8_DisabledCountTokensEstimates ==
  \A k \in Clients :
    (Calling(k, "countTokens") /\ ~endpointConfig.countTokens)
      => /\ gpc[k] = "done"
         /\ gres[k].kind = "count"
         /\ gres[k].totalTokens = EstimateTokenCount(greq[k].contents)
         /\ greq[k].contents = StringContents("hello world")
              => gres[k].totalTokens = 3
         /\ wrappedCalls[k] = <<>>

\* A gated countTokens call with the two-element contents list: 2 + 15 + 5
\* for the content block, 1 for the bare item, 6 of list overhead.
C8_Witness ==
  \E k \in Clients :
    /\ Calling(k, "countTokens")
    /\ ~endpointConfig.countTokens
    /\ greq[k].contents.kind = "list"
    /\ gres[k].totalTokens = 29
    /\ wrappedCalls[k] = <<>>

\* C9: when the flag generateContentStream is false, generateContentStream
\* invokes the wrapped generateContent exactly once with the same request
\* and never the wrapped generateContentStream, and the sequence it returns
\* yields exactly one element, the generateContent result, and then ends.
C9_StreamFallbackSingleChunk ==
  \A k \in Clients :
    (Calling(k, "generateContentStream") /\ ~endpointConfig.generateContentStream)
      => /\ wrappedCalls[k] = << [method |-> "generateContent", request |-> greq[k]] >>
         /\ gpc[k] = "sequence" => yielded[k] \in {<<>>, <<wrappedRes[k]>>}
         /\ (gpc[k] = "done" /\ gres[k].kind # "error")
              => /\ gres[k].kind = "sequence"
                 /\ wrappedRes[k].kind = "response"
                 /\ yielded[k] = <<wrappedRes[k]>>
         /\ gres[k].kind \in {"none", "error"} => yielded[k] = <<>>

\* A fallback sequence that has yielded "respB" and has ended.
C9_Witness ==
  \E k \in Clients :
    /\ Calling(k, "generateContentStream")
    /\ ~endpointConfig.generateContentStream
    /\ gpc[k] = "done"
    /\ gres[k].kind = "sequence"
    /\ yielded[k] = << [kind |-> "response", value |-> "respB", totalTokens |-> 0] >>

-----------------------------------------------------------------------------
(* Claims about the methods of LlmHttpClient *)

\* The outcome of the last transport attempt of request r.
LastOutcome(r) == hist[r][Len(hist[r])]

\* The endpoint answered with the status 404.
NotFound(o) == o.settle = "reject" /\ o.hasResponse /\ o.status = 404

\* C11: when the countTokens endpoint answers 404, countTokens makes no
\* further transport attempt (a first attempt answered 404 is the only
\* attempt, with no backoff) and returns {totalTokens:
\* estimate(request.contents)} (3 for 'hello world') instead of raising.
C11_NotFoundCountsLocally ==
  (cop = "countTokens" /\ hist["r1"] # <<>>)
    => /\ \A i \in 1..Len(hist["r1"]) :
            NotFound(hist["r1"][i])
              => i = Len(hist["r1"]) /\ sent["r1"] = i /\ rpc["r1"] = "done"
       /\ NotFound(hist["r1"][1]) => sent["r1"] = 1 /\ delays["r1"] = <<>>
       /\ (cpc = "done" /\ NotFound(LastOutcome("r1")))
            => /\ cres.kind = "count"
               /\ cres.totalTokens = LlmEstimateTokenCount(creq.contents)
               /\ creq.contents = StringContents("hello world")
                    => cres.totalTokens = 3

\* countTokens for 'hello world', answered 404 at the first attempt: one
\* attempt, and the result {totalTokens: 3}.
C11_Witness ==
  /\ cop = "countTokens"
  /\ cpc = "done"
  /\ hist["r1"] = <<RejectedHttp(404)>>
  /\ sent["r1"] = 1
  /\ creq.contents = StringContents("hello world")
  /\ cres.kind = "count"
  /\ cres.totalTokens = 3

\* C12: countTokens returns a local estimate only when the endpoint
\* answered 404; every other failure (another 4xx status, a 5xx status
\* after the retries, a network failure, a timeout, no attempt at all) is
\* raised, whatever the url, the model name or the response body contain.
C12_OnlyNotFoundAbsorbed ==
  (cop = "countTokens" /\ cpc = "done" /\ cres.kind = "count")
    => hist["r1"] # <<>> /\ NotFound(LastOutcome("r1"))

\* countTokens on a client whose model name contains '404', answered 400:
\* the estimate is returned and no error is raised.
C12_Witness ==
  /\ cop = "countTokens"
  /\ cpc = "done"
  /\ cfgModel = <<"m", "4", "0", "4">>
  /\ creq.model = <<>>
  /\ hist["r1"] = <<RejectedHttp(400)>>
  /\ cres.kind = "count"

\* What the sequence is to yield for the response rr: the items of an
\* array, the single value otherwise, nothing for an empty value.
ExpectedElements(rr) ==
  IF rr.isArray
    THEN [i \in 1..Len(rr.items) |-> [value |-> rr.items[i], items |-> <<>>]]
    ELSE IF rr.body = "" THEN <<>> ELSE << [value |-> rr.body, items |-> <<>>] >>

\* C13 as stated: generateContentStream performs a single backend call
\* and, for every successful backend response, the returned sequence yields
\* exactly one element built from that response and then ends.
C13_OneElementPerResponse ==
  (cop = "generateContentStream" /\ cpc = "done" /\ rres["r1"].kind = "response")
    => /\ Len(backend) = 1
       /\ Len(cyield) = 1
       /\ cgen.status = "ended"

\* C13 (amended): generateContentStream performs a single backend call and,
\* for every successful backend response, the returned sequence yields one
\* element per item when the response body is a list, exactly one element
\* when it is any other non-empty value, and no element when it is empty,
\* each built from the response, in order; then it ends.
C13_ElementsOfResponse ==
  (cop = "generateContentStream" /\ rres["r1"].kind = "response")
    => /\ Len(backend) = 1
       /\ cpc = "yielded"
            => /\ cyield \o pending = ExpectedElements(rres["r1"])
               /\ cyield # <<>>
       /\ cpc = "done"
            => /\ cyield = ExpectedElements(rres["r1"])
               /\ cgen.status = "ended"

\* A stream answered with an array of two items: both were yielded, in
\* order, and the sequence has ended.
C13_Witness ==
  /\ cop = "generateContentStream"
  /\ cpc = "done"
  /\ rres["r1"].kind = "response"
  /\ rres["r1"].isArray
  /\ cyield = << [value |-> "itemA", items |-> <<>>],
                 [value |-> "itemB", items |-> <<>>] >>
  /\ cgen.status = "ended"

\* The stream request has ended with a 404 answer and the generator has
\* handled it.
StreamNotFound ==
  /\ cop = "generateContentStream"
  /\ hist["r1"] # <<>>
  /\ NotFound(LastOutcome("r1"))
  /\ cpc # "streamRequest"

\* C14: when the streamGenerateContent endpoint answers 404, the sequence
\* calls generateContent exactly once with the same request, yields exactly
\* that result and ends without raising; a failure of that generateContent
\* call is raised to the consumer.
C14_NotFoundStreamFallsBack ==
  StreamNotFound
    => /\ cpc \in {"fallbackAuth", "fallbackRequest", "yielded", "done"}
       /\ Len(backend) <= 2
       /\ Len(backend) = 2
            => /\ backend[2].endpoint = "generateContent"
               /\ backend[2].request = creq
               /\ backend[1].request = creq
       /\ cpc = "fallbackAuth" => Len(backend) = 1
       /\ cpc = "fallbackRequest" => Len(backend) = 2 /\ cyield = <<>>
       /\ cpc = "yielded"
            => /\ Len(backend) = 2
               /\ rres["r2"].kind = "response"
               /\ cyield = << [value |-> rres["r2"].body, items |-> rres["r2"].items] >>
               /\ pending = <<>>
       /\ cpc = "done"
            => \/ /\ cgen.status = "ended"
                  /\ Len(backend) = 2
                  /\ rres["r2"].kind = "response"
                  /\ cyield = << [value |-> rres["r2"].body, items |-> rres["r2"].items] >>
               \/ /\ cgen.status = "threw"
                  /\ cyield = <<>>
                  /\ \/ Len(backend) = 1
                     \/ rres["r2"].kind = "error" /\ cgen.message = rres["r2"].message

\* A stream answered 404 whose fallback generateContent returned "bodyA":
\* that one element was yielded and the sequence has ended.
C14_Witness ==
  /\ cop = "generateContentStream"
  /\ cpc = "done"
  /\ hist["r1"] = <<RejectedHttp(404)>>
  /\ Len(backend) = 2
  /\ rres["r2"].kind = "response"
  /\ cyield = << [value |-> "bodyA", items |-> <<>>] >>
  /\ cgen.status = "ended"

-----------------------------------------------------------------------------
(* Claims about the token estimators *)

\* C15: for every input (any string, the empty string included, any list,
\* the empty list included, any other value) the token estimator returns an
\* integer greater than or equal to 1.
C15_EstimateAtLeastOne ==
  /\ estOut.done => estOut.value >= 1
  /\ llmOut.done => llmOut.value >= 1

\* The estimate of the empty string: 0.
C15_Witness ==
  /\ estIn = [kind |-> "string", text |-> "", items |-> <<>>]
  /\ estOut = [done |-> TRUE, value |-> 0]

\* ceil(a / b), from the remainder.
Ceil(a, b) == IF a % b = 0 THEN a \div b ELSE (a \div b) + 1

\* The documented contribution of the i-th part of a block.
DocPart(p) ==
  Ceil(Len(p.text), 4)
    + (IF p.functionCall THEN 15 ELSE 0)
    + (IF p.inlineData THEN Ceil(p.dataLen, 100) ELSE 0)

\* The documented contribution of the first n parts of a block.
RECURSIVE DocParts(_, _)
DocParts(parts, n) ==
  IF n = 0 THEN 0 ELSE DocParts(parts, n - 1) + DocPart(parts[n])

\* The documented contribution of the first n blocks of a list.
RECURSIVE DocBlocks(_, _)
DocBlocks(items, n) ==
  IF n = 0 THEN 0
  ELSE DocBlocks(items, n - 1)
         + DocParts(items[n].parts, Len(items[n].parts))
         + (IF items[n].role # "" THEN 5 ELSE 0)

\* The documented formula.
Documented(contents) ==
  IF contents.kind = "string"
    THEN Ceil(Len(contents.text), 4)
    ELSE LET total == DocBlocks(contents.items, Len(contents.items))
                        + 3 * Len(contents.items)
         IN IF total < 1 THEN 1 ELSE total

\* A plain string, or a list all of whose elements are content blocks.
Formulated(contents) ==
  \/ contents.kind = "string"
  \/ /\ contents.kind = "list"
     /\ \A i \in 1..Len(contents.items) : contents.items[i].kind = "content"

\* Every element is a role-tagged block without parts.
RoleOnly(contents) ==
  /\ contents.kind = "list"
  /\ \A i \in 1..Len(contents.items) :
       /\ contents.items[i].kind = "content"
       /\ contents.items[i].role # ""
       /\ contents.items[i].parts = <<>>

\* C16: the token estimator equals its documented formula: ceil(length/4)
\* for a plain string ('hello world' gives 3); for a list of content blocks
\* the sum of ceil(textLength/4) per text part, 15 per function-call part,
\* ceil(dataLength/100) per inline-data part and 5 per block with a role,
\* plus 3 per block, floored at 1 (N role-tagged blocks without parts give
\* 5N + 3N).
C16_EstimateMatchesFormula ==
  (estOut.done /\ Formulated(estIn))
    => /\ estOut.value = Documented(estIn)
       /\ estIn = [kind |-> "string", text |-> "hello world", items |-> <<>>]
            => estOut.value = 3
       /\ (RoleOnly(estIn) /\ estIn.items # <<>>)
            => estOut.value = 5 * Len(estIn.items) + 3 * Len(estIn.items)

\* Two role-tagged blocks without parts: 16.
C16_Witness ==
  /\ RoleOnly(estIn)
  /\ Len(estIn.items) = 2
  /\ estOut = [done |-> TRUE, value |-> 16]

-----------------------------------------------------------------------------
(* Further claims about SsoAuthClient *)

\* C17: when the SSO endpoint address is not configured, getToken fails
\* with 'SSO_SERVER environment variable is not set' and issues no network
\* request and no cache write, whatever the cache contains.
C17_UnconfiguredFailsAtOnce ==
  \A c \in Callers :
    (ssoUrl = "" /\ spc[c] # "idle")
      => /\ spc[c] = "done"
         /\ sres[c] = [kind |-> "error",
                       value |-> "SSO_SERVER environment variable is not set"]
         /\ posts[c] = 0
         /\ wrote[c] = <<>>

\* With no address configured, a call has returned the cached token.
C17_Witness ==
  \E c \in Callers :
    /\ ssoUrl = ""
    /\ spc[c] = "done"
    /\ sres[c] = [kind |-> "token", value |-> "tokA"]

\* The SSO request of the call of c was sent and failed.
SsoRequestFailed(c) == spc[c] = "done" /\ posts[c] = 1 /\ resp[c] = NoResp

\* C18: when the SSO request fails at network level or with a non-2xx
\* status, getToken fails with 'SSO Authentication failed', returns no
\* token, and the cache file is exactly as it was before the call.
C18_SsoFailureLeavesCache ==
  \A c \in Callers :
    SsoRequestFailed(c)
      => /\ sres[c] = [kind |-> "error", value |-> "SSO Authentication failed"]
         /\ wrote[c] = <<>>
         /\ file = before[c]

\* A call that found an expired credential, was refused by the SSO
\* endpoint, and left that credential in the cache.
C18_Witness ==
  \E c \in Callers :
    /\ SsoRequestFailed(c)
    /\ before[c].kind = "cred"
    /\ file = before[c]
    /\ sres[c].kind = "error"

\* The value appears in the console line.
Shows(line, value) == \E i \in 1..Len(line) : line[i] = value

\* C19: no console line and no error message produced by getToken, on
\* success or on any failure path, contains the password sent to the SSO
\* endpoint.
C19_PasswordNeverPrinted ==
  \A c \in Callers :
    /\ \A i \in 1..Len(slog[c]) : ~Shows(slog[c][i], password)
    /\ sres[c].kind = "error" => sres[c].value # password

\* A refused call whose 'Response data:' line shows the password, which is
\* not the user name.
C19_Witness ==
  \E c \in Callers :
    /\ password # userid
    /\ spc[c] = "done"
    /\ \E i \in 1..Len(slog[c]) :
         /\ slog[c][i][1] = "Response data:"
         /\ Shows(slog[c][i], password)

\* C20: credential persistence is atomic: under any interleaving of a save
\* with loads or other saves, every load finds no file, the complete
\* previous credential or the complete new one, never a partially written
\* or mixed one; and when no save is under way the file holds a complete
\* credential or does not exist.
C20_AtomicPersistence ==
  /\ \A c \in Callers : seen[c].kind \in {"unread", "absent", "cred"}
  /\ (\A c \in Callers : spc[c] # "writeData") => file.kind \in {"absent", "cred"}

\* One call has read the file while the other had truncated it and not yet
\* written, although a complete credential was stored before.
C20_Witness ==
  /\ seen["c2"].kind = "empty"
  /\ spc["c1"] = "writeData"
  /\ before["c1"].kind = "cred"

\* The call of c started with a missing or an expired cache.
StartedOnMiss(c) ==
  \/ before[c].kind = "absent"
  \/ before[c].kind = "cred" /\ before[c].expires_at <= now

\* Every save that was started has completed, and there was one.
SavesCompleted ==
  /\ \A c \in Callers : spc[c] = "done" /\ (resp[c] # NoResp => wrote[c] # <<>>)
  /\ \E c \in Callers : wrote[c] # <<>>

\* C21: under any interleaving of concurrent getToken calls that start
\* with an absent or expired cache, each call issues at most one SSO
\* request; a call that returns a token returns the id_token of its own
\* response or a complete unexpired credential saved by the other call; and
\* once the saves have completed the cache holds what one of them (the last
\* one) wrote.
C21_ConcurrentCallsLastWriterWins ==
  /\ \A c \in Callers :
       StartedOnMiss(c)
         => /\ posts[c] <= 1
            /\ sres[c].kind = "token"
                 => \/ posts[c] = 1 /\ sres[c].value = resp[c].id_token
                    \/ /\ posts[c] = 0
                       /\ seen[c].kind = "cred"
                       /\ seen[c].expires_at > checkedAt[c]
                       /\ sres[c].value = seen[c].token
                       /\ \E o \in Callers \ {c} :
                            wrote[o] # <<>> /\ seen[c] = wrote[o][1]
  /\ ((\A c \in Callers : StartedOnMiss(c)) /\ SavesCompleted)
       => \E c \in Callers : wrote[c] # <<>> /\ file = wrote[c][1]

\* Two calls started on an expired cache, both got a token from the SSO
\* endpoint and returned it, and the cache holds a mixture of their saves.
C21_Witness ==
  /\ \A c \in Callers : StartedOnMiss(c) /\ sres[c].kind = "token" /\ posts[c] = 1
  /\ SavesCompleted
  /\ file.kind = "mixed"

\* What a save made with the response of c stores.
SavedCredential(c) ==
  [kind |-> "cred", token |-> resp[c].id_token,
   expires_at |-> respAt[c] + resp[c].expires_in * 1000]

\* The call of c has saved the credential of its response.
HasSaved(c) == spc[c] \in {"written", "done"} /\ wrote[c] # <<>>

\* The content readFile delivered to c was stored by an earlier call.
SawEarlierSave(c) == seen[c].kind = "cred" /\ seen[c] \notin InitFiles

SawNoCredential(c) == seen[c].kind \in {"absent", "garbage", "empty", "mixed"}

\* C23: loading the cached credential never raises: when the cache file is
\* missing, unreadable or not parseable, getTokenFromCache returns null and
\* getToken goes on as on a cache miss, with one SSO request, instead of
\* failing.
C23_LoadNeverRaises ==
  \A c \in Callers :
    SawNoCredential(c)
      => /\ GetTokenFromCache(seen[c], now) = NULL
         /\ spc[c] = "checkCache" => sres[c] = NoResult
         /\ spc[c] \in AfterCheck => posts[c] = 1

\* A call that read an unparseable file, sent one SSO request and returned
\* the token of the response.
C23_Witness ==
  \E c \in Callers :
    /\ seen[c].kind = "garbage"
    /\ spc[c] = "done"
    /\ posts[c] = 1
    /\ sres[c] = TokenResult("tokA")

\* The text of the error requestWithHandling threw tells of the failure
\* `e`: the HTTP status, with the response body when there is one, for a
\* failure with a response; 'Request timed out' for a timeout; otherwise the
\* failure's own message.
TellsOf(text, e) ==
  IF e.hasResponse
    THEN /\ Includes(text, <<": HTTP ">> \o Digits(e.status))
         /\ e.data # <<>> => Includes(text, e.data)
    ELSE IF e.code = "ECONNABORTED"
      THEN Includes(text, <<": Request timed out">>)
      ELSE e.message # <<>> /\ Includes(text, e.message)

\* C24: whenever requestWithHandling raises, the message of the error it
\* raises carries context about the last failure: the HTTP status (and the
\* response body when present), or 'Request timed out', or the last
\* failure's own message; never none of these.
C24_ConsolidatedErrorHasContext ==
  \A r \in Requests :
    rres[r].kind = "error" => TellsOf(rres[r].message, lastError[r])

\* requestWithHandling has raised the bare prefix without any attempt.
C24_Witness ==
  \E r \in Requests :
    /\ rres[r].kind = "error"
    /\ sent[r] = 0
    /\ rres[r].message = <<"[LlmHttpClient] Request failed">>

\* The operation each method is documented to address.
OperationOf(method) ==
  CASE method = "generateContent" -> "generateContent"
    [] method = "embedContent" -> "embedContent"
    [] method = "countTokens" -> "countTokens"
    [] method = "generateContentStream" -> "streamGenerateContent"

\* {baseUrl}/v1/projects/{project}/locations/{location}/publishers/google/
\* models/{model}:{operation}
DocumentedUrl(model, operation) ==
  <<"https://llm.example.com", "/v1/projects/", "proj", "/locations/", "loc",
    "/publishers/google/models/">> \o model \o <<":">> \o <<operation>>

\* The model a backend request is documented to name.
DocumentedModel(b) ==
  IF b.endpoint = "countTokens" /\ b.request.model # <<>>
    THEN b.request.model
    ELSE cfgModel

\* C25: every backend request targets {baseUrl}/v1/projects/{project}/
\* locations/{location}/publishers/google/models/{model}:{operation}; the
\* operation is that of the method called, and the model is the configured
\* one, except that countTokens takes the request's model when it has one.
C25_RequestUrl ==
  /\ \A i \in 1..Len(backend) :
       /\ backend[i].url = DocumentedUrl(DocumentedModel(backend[i]), backend[i].endpoint)
       /\ backend[i].request = creq
  /\ backend # <<>> => backend[1].endpoint = OperationOf(cop)
  /\ Len(backend) > 1 =>
       (cop = "generateContentStream" /\ backend[2].endpoint = "generateContent")
  /\ \A r \in Requests :
       rpc[r] # "idle" =>
         \E i \in 1..Len(backend) : options[r].url = backend[i].url

\* countTokens was called on a client configured for one model with a
\* request naming another, and the request went to the model of the request.
C25_Witness ==
  /\ cop = "countTokens"
  /\ Len(backend) = 1
  /\ creq.model = <<"m", "2">>
  /\ cfgModel # creq.model
  /\ options["r1"].url = DocumentedUrl(<<"m", "2">>, "countTokens")
  /\ sent["r1"] = 1

-----------------------------------------------------------------------------
(* Claims about the request body, the logs and the configuration *)

\* The body `data` is the documented serialisation of `request`: the
\* contents in their order; the system block exactly when config carries a
\* (non-empty) system instruction; safetySettings, tools and toolConfig only
\* when config has them, unchanged; generationConfig only when a field other
\* than the named ones remains; abortSignal and httpOptions nowhere.
DocumentedBody(data, request) ==
  LET config == request.config
      named == {"systemInstruction", "safetySettings", "tools", "toolConfig",
                "abortSignal", "httpOptions"}
  IN /\ "contents" \in DOMAIN data
     /\ data["contents"] = request.contents
     /\ "systemInstruction" \in DOMAIN data
          <=> ("systemInstruction" \in DOMAIN config /\ config["systemInstruction"] # "")
     /\ "systemInstruction" \in DOMAIN data
          => data["systemInstruction"] =
               [role |-> "system",
                parts |-> <<[text |-> config["systemInstruction"]]>>]
     /\ \A k \in {"safetySettings", "tools", "toolConfig"} :
          k \in DOMAIN data => (k \in DOMAIN config /\ data[k] = config[k])
     /\ "generationConfig" \in DOMAIN data => DOMAIN config \ named # {}
     /\ DOMAIN data \cap {"abortSignal", "httpOptions"} = {}
     /\ "generationConfig" \in DOMAIN data
          => DOMAIN data["generationConfig"] \cap {"abortSignal", "httpOptions"} = {}

\* C26: the body serialised by generateContent and generateContentStream
\* holds the request's contents in their original order, a systemInstruction
\* block {role: 'system', parts: [{text: X}]} exactly when the config
\* carries a system instruction X, safetySettings, tools and toolConfig only
\* when present, generationConfig only when another config field remains,
\* and never abortSignal or httpOptions.
C26_RequestBody ==
  /\ genData.done => DocumentedBody(genData.data, genRequest)
  /\ streamData.done => DocumentedBody(streamData.data, genRequest)

\* Both methods have built the body of a request that carries a system
\* instruction, an abort signal, transport options and a temperature: the
\* body has the system block and a generationConfig with the temperature.
C26_Witness ==
  /\ genData.done
  /\ streamData.done
  /\ genRequest.contents = <<"turnB", "turnA">>
  /\ DOMAIN genRequest.config =
       {"systemInstruction", "abortSignal", "httpOptions", "temperature"}
  /\ genRequest.config["systemInstruction"] = "X"
  /\ DOMAIN genData.data = {"contents", "systemInstruction", "generationConfig"}
  /\ DOMAIN genData.data["generationConfig"] = {"temperature"}
  /\ streamData = genData

\* The text `value` occurs somewhere in the tree.
RECURSIVE Mentions(_, _)
Mentions(node, value) ==
  \/ node.t = "str" /\ node.s = value
  \/ \E i \in 1..Len(node.fields) : Mentions(node.fields[i].v, value)
  \/ \E i \in 1..Len(node.items) : Mentions(node.items[i], value)

\* Every property of the tree named by one of `keys`, at any depth, holds
\* the text 'REDACTED'.
RECURSIVE AllRedacted(_, _)
AllRedacted(node, keys) ==
  /\ \A i \in 1..Len(node.fields) :
       IF node.fields[i].k \in keys
         THEN node.fields[i].v = Str("REDACTED")
         ELSE AllRedacted(node.fields[i].v, keys)
  /\ \A i \in 1..Len(node.items) : AllRedacted(node.items[i], keys)

\* The number of properties named by one of `keys` in the tree.
RECURSIVE Named(_, _)
RECURSIVE NamedIn(_, _, _)
Named(node, keys) ==
  NamedIn(node.fields, keys, TRUE) + NamedIn(node.items, keys, FALSE)

NamedIn(list, keys, areFields) ==
  IF list = <<>> THEN 0
  ELSE (IF areFields
          THEN (IF Head(list).k \in keys THEN 1 ELSE Named(Head(list).v, keys))
          ELSE Named(Head(list), keys))
       + NamedIn(Tail(list), keys, areFields)

\* C27: with logging enabled, in every request, response and error that is
\* logged, the value of the Authorization header and of every field named
\* password or token, at any depth inside objects and arrays, does not
\* appear; 'REDACTED' is printed in its place.
C27_SecretsRedactedInLogs ==
  \A i \in 1..Len(logOut) :
    /\ logOut[i].printed = logging
    /\ logOut[i].printed
         => /\ ~Mentions(logOut[i].line, SecretValue)
            /\ ~Mentions(logOut[i].line, BearerValue)
            /\ AllRedacted(logOut[i].line, {"Authorization", "password", "token"})
            /\ Named(logOut[i].line, {"password", "token"})
                 = Named(logIn.options.data, {"password", "token"})
            /\ logOut[i].call = "logRequest"
                 => Named(logOut[i].line, {"Authorization"}) = 1

\* With logging on, the three log calls have printed a body whose password
\* sits in an object inside an array inside an object.
C27_Witness ==
  /\ logging
  /\ Len(logOut) = 3
  /\ logIn.options.data =
       Obj(<<Field("nested",
                   Arr(<<PlainText,
                         Obj(<<Field("text", PlainText),
                               Field("password", Str(SecretValue))>>)>>))>>)
  /\ \A i \in 1..3 : Mentions(logOut[i].line, "REDACTED")

-----------------------------------------------------------------------------
(* Claims about the authentication of LlmHttpClient *)

\* C28: when an access token is configured, no operation of any sequence of
\* calls consults the SSO client and every backend request carries
\* 'Authorization: Bearer <that token>'; when none is configured, every
\* operation obtains its token from ssoAuth.getToken().
C28_ConfiguredTokenBypassesSso ==
  /\ accessToken # ""
       => /\ \A i \in 1..Len(cauth) : cauth[i] = AuthUse("config", accessToken)
          /\ \A j \in 1..Len(backend) :
               backend[j].authorization = <<"Bearer ", accessToken>>
  /\ accessToken = ""
       => /\ \A i \in 1..Len(cauth) : cauth[i].source = "sso"
          /\ \A j \in 1..Len(backend) :
               /\ j <= Len(cauth)
               /\ cauth[j].token \in SsoTokens
               /\ backend[j].authorization = <<"Bearer ", cauth[j].token>>

\* A stream on a client with a configured token fell back to
\* generateContent: two backend requests, both with the configured token.
C28_Witness ==
  /\ accessToken = "tokX"
  /\ Len(backend) = 2
  /\ Len(cauth) = 2
  /\ \A j \in 1..2 : backend[j].authorization = <<"Bearer ", "tokX">>

-----------------------------------------------------------------------------
(* Claims about concurrent requests on one LlmHttpClient *)

\* The failed attempts among the transport outcomes of one request.
Failures(h) ==
  {i \in 1..Len(h) : h[i].settle = "reject" \/ ResolvedServerError(h[i])}

\* The position of the last failed attempt of a request that has failed.
LastFailure(h) ==
  CHOOSE i \in Failures(h) : \A j \in Failures(h) : j <= i

\* C29: concurrent requests on one client keep independent retry state: the
\* attempt counter and the last error of a request follow from its own
\* attempts only, a request gives up on retryable failures only after all
\* of its maxAttempts attempts, and while one request waits out its backoff
\* delay the other can start, and can have its attempt settled.
C29_IndependentRetryState ==
  \A r \in Requests :
    /\ attempt[r] = Cardinality(Failures(hist[r]))
    /\ lastError[r] =
         (IF Failures(hist[r]) = {} THEN NoError
          ELSE CaughtError(hist[r][LastFailure(hist[r])]))
    /\ (rres[r].kind = "error" /\ AllRetryableFailures(hist[r]))
         => Len(hist[r]) = Budget
    /\ sent[r] <= Budget
    /\ \A o \in Requests \ {r} :
         rpc[o] = "backoff"
           => /\ rpc[r] = "idle" => ENABLED RequestStart(r)
              /\ rpc[r] = "attempting"
                   => (ENABLED AttemptSucceeds(r) /\ ENABLED AttemptFails(r))

\* One request gave up after a client error while the other, having failed
\* once on a retryable error, went on to its second attempt.
C29_Witness ==
  /\ maxAttemptsCfg = Defined(2)
  /\ rres["r1"].kind = "error"
  /\ attempt["r1"] = 1
  /\ lastError["r1"].status = 400
  /\ rpc["r2"] = "attempting"
  /\ attempt["r2"] = 1
  /\ sent["r2"] = 2
  /\ lastError["r2"].code = "ECONNRESET"

-----------------------------------------------------------------------------
(* Claims about createContentGeneratorConfig *)

\* What docs/env-example.md says of one endpoint flag: generateContent and
\* embedContent are on unless the variable is the string false,
\* generateContentStream and countTokens are on only when it is the string
\* true.
DocumentedFlag(name, value) ==
  IF name \in {"generateContent", "embedContent"}
    THEN value # "false"
    ELSE value = "true"

\* The environment selects Vertex AI with a custom base URL, project and
\* location.
CustomEndpoint(e) ==
  /\ e.authType = "vertex-ai"
  /\ e.baseUrl
  /\ e.project
  /\ e.location

-----------------------------------------------------------------------------
(* Claims about CustomHttpInterceptor *)

\* Some interceptor is active.
SomeActive == \E i \in Instances : isIntercepted[i]

\* The step is a call of fetch.
FetchCalled == lastCall'.op = "fetch"

\* The call was handed to the fetch of the runtime as it came.
ForwardedUnchanged(o) ==
  /\ o.via = "native"
  /\ o.passedInput = o.input
  /\ o.passedInit = o.init

\* The call was sent through gaxios to the enterprise base URL, and nothing
\* went to the fetch of the runtime.
RedirectedOnly(o) ==
  /\ o.via = "gaxios"
  /\ \E i \in Instances :
       /\ constructed[i]
       /\ o.request.url[1] = interceptorConfig[i].baseURL
  /\ o.passedInput = NoFetchInput

\* C31: while an interceptor is active, a fetch of a URL that is not a
\* Google Generative AI request is forwarded to the original fetch with the
\* same input and init, and a fetch of one that is goes to the transformed
\* enterprise URL only.
C31_ForwardOrRedirect ==
  [][(FetchCalled /\ SomeActive)
       => IF IsGoogleGenAIRequest(fetched'.input.url)
            THEN RedirectedOnly(fetched')
            ELSE ForwardedUnchanged(fetched')]_vars

\* A fetch of a Request object for a URL outside Google was rejected by the
\* interceptor's function and reached no fetch at all.
C31_Witness ==
  /\ fetched.via = "throw"
  /\ fetched.input.kind = "Request"
  /\ ~IsGoogleGenAIRequest(fetched.input.url)
  /\ fetched.passedInput = NoFetchInput
  /\ fetched.request = NoGaxiosRequest

\* The path name reads .../models/{model}:{method}.
ModelAndMethod(segments) ==
  /\ Len(segments) >= 2
  /\ segments[Len(segments) - 1] = <<"models">>
  /\ Len(segments[Len(segments)]) = 3
  /\ segments[Len(segments)][2] = ":"
  /\ Colons(segments[Len(segments)]) = {2}

\* {baseURL}/v1/projects/{projectId}/locations/{location}/publishers/google/
\* models/{model}:{method}?{query}
DocumentedEnterpriseUrl(cfg, u) ==
  <<cfg.baseURL, "/v1/projects/", cfg.projectId, "/locations/", cfg.location,
    "/publishers/google/models/", u.pathname[Len(u.pathname)][1], ":",
    u.pathname[Len(u.pathname)][3]>> \o u.search

\* The key= parameter, after '?' or, behind a query string, after '&'.
DocumentedKey(cfg, u) ==
  <<IF u.search = <<>> THEN "?" ELSE "&", "key=", cfg.apiKey>>

\* C32: a redirected request for .../models/{model}:{method}?{query} goes to
\* {baseURL}/v1/projects/{projectId}/locations/{location}/publishers/google/
\* models/{model}:{method}?{query}; key={apiKey} is appended exactly when an
\* apiKey is configured and no accessToken is; with an accessToken
\* configured the request carries Authorization: Bearer {accessToken}.
C32_UrlTransformation ==
  (fetched.via = "gaxios" /\ ModelAndMethod(fetched.input.url.pathname))
    => LET cfg == interceptorConfig["i1"]
           u == fetched.input.url
       IN /\ fetched.request.url =
               (IF cfg.apiKey # "" /\ cfg.accessToken = ""
                  THEN DocumentedEnterpriseUrl(cfg, u) \o DocumentedKey(cfg, u)
                  ELSE DocumentedEnterpriseUrl(cfg, u))
          /\ cfg.accessToken # ""
               => <<"Authorization", <<"Bearer ", cfg.accessToken>>>>
                    \in fetched.request.headers

\* With an apiKey and an accessToken configured, a request with a query
\* string and a Headers object went out without key=, with the query string
\* kept and with the bearer token of the configuration.
C32_Witness ==
  /\ fetched.via = "gaxios"
  /\ interceptorConfig["i1"].apiKey = "key1"
  /\ interceptorConfig["i1"].accessToken = "tokA"
  /\ fetched.input.url.search = <<"?", "alt=sse">>
  /\ fetched.init.headers.kind = "Headers"
  /\ fetched.request.url =
       <<"https://proxy.corp", "/v1/projects/", "proj", "/locations/",
         "us-central1", "/publishers/google/models/", "gemini-pro", ":",
         "countTokens", "?", "alt=sse">>
  /\ <<"Authorization", <<"Bearer ", "tokA">>>> \in fetched.request.headers
  /\ fetched.request.method = "POST"

\* The step is a call of intercept() / restore() on instance i.
InterceptCalled(i) == lastCall' = [op |-> "intercept", inst |-> i]

RestoreCalled(i) == lastCall' = [op |-> "restore", inst |-> i]

\* C34: on one interceptor, intercept() while active does not assign
\* global.fetch again, restore() while inactive changes nothing, and
\* restore() after intercept() leaves global.fetch the function captured by
\* the constructor, which no call ever changes.
C34_InterceptRestoreIdempotent ==
  [][\A i \in Instances :
       /\ (InterceptCalled(i) /\ isIntercepted[i])
            => UNCHANGED <<globalFetch, isIntercepted, originalFetch, patches>>
       /\ (RestoreCalled(i) /\ ~isIntercepted[i])
            => UNCHANGED <<globalFetch, isIntercepted, originalFetch, patches>>
       /\ (RestoreCalled(i) /\ isIntercepted[i])
            => /\ globalFetch' = originalFetch[i]
               /\ ~isIntercepted'[i]
       /\ constructed[i] => originalFetch'[i] = originalFetch[i]]_vars

\* Instance i1 took three calls, patched global.fetch once, and is restored:
\* global.fetch is the function its constructor captured.
C34_Witness ==
  /\ calls = 3
  /\ ~constructed["i2"]
  /\ patches["i1"] = 1
  /\ ~isIntercepted["i1"]
  /\ lastCall = [op |-> "restore", inst |-> "i1"]
  /\ globalFetch = originalFetch["i1"]
  /\ globalFetch = NativeFetch

\* Every interceptor is inactive: never activated, or restored.
AllRestored == \A i \in Instances : ~isIntercepted[i]

\* C39: for any interceptors, constructed, activated and restored in any
\* order, once every activated one has been restored global.fetch is the
\* fetch of the runtime.
C39_AllRestoredMeansUnpatched ==
  AllRestored => globalFetch = NativeFetch

\* Both interceptors were activated and restored, global.fetch is still the
\* function of i1, and a fetch of a Google URL made after that was
\* redirected.
C39_Witness ==
  /\ AllRestored
  /\ patches = [i \in Instances |-> 1]
  /\ globalFetch = Wrapper("i1", 1)
  /\ lastCall.op = "fetch"
  /\ fetched.input.url = GenLangUrl
  /\ fetched.via = "gaxios"

-----------------------------------------------------------------------------
(* Further claims about the methods of LlmHttpClient *)

\* The latest call of getAuthHeaders was rejected and the operation is over.
AuthFailed ==
  /\ cpc = "done"
  /\ cauth # <<>>
  /\ cauth[Len(cauth)].token = NULL

\* The operation ended with an error: thrown by the method, or thrown by the
\* returned sequence.
OperationFailed == cres.kind = "error" \/ cgen.status = "threw"

\* Every call of requestWithHandling carries the token of the call of
\* getAuthHeaders made for it, which had resolved.
TokenBeforeRequest ==
  \A k \in DOMAIN backend :
    /\ k <= Len(cauth)
    /\ cauth[k].token # NULL
    /\ backend[k].authorization = <<"Bearer ", cauth[k].token>>

\* C33 as stated: the token is obtained before any backend request, and an
\* operation in which a token acquisition fails has sent no request at all.
C33_NoRequestWhenAuthFailsAtAll ==
  /\ TokenBeforeRequest
  /\ AuthFailed => (OperationFailed /\ backend = <<>>)

\* C33: the token is obtained before any backend request; when a token
\* acquisition fails the operation fails and sends no request for it: none
\* at all when it is the acquisition of the method called, only the stream
\* request already answered with 404 when it is the acquisition of the
\* fallback generateContent.
C33_NoRequestWhenAuthFails ==
  /\ TokenBeforeRequest
  /\ (\E r \in Requests : sent[r] > 0) => backend # <<>>
  /\ sent["r2"] > 0 => Len(backend) = 2
  /\ AuthFailed
       => /\ OperationFailed
          /\ Len(backend) = Len(cauth) - 1
          /\ Len(cauth) = 1 => \A r \in Requests : sent[r] = 0
          /\ Len(cauth) = 2
               => /\ cop = "generateContentStream"
                  /\ MessageSays404(rres["r1"])
                  /\ sent["r2"] = 0

\* The stream request was answered with 404, the token acquisition of the
\* fallback generateContent failed, and the sequence threw: one request had
\* been sent.
C33_Witness ==
  /\ AuthFailed
  /\ cop = "generateContentStream"
  /\ Len(cauth) = 2
  /\ cauth[1].token = "tokA"
  /\ Len(backend) = 1
  /\ sent["r1"] >= 1
  /\ cgen.status = "threw"
  /\ cgen.message = <<AuthErrorMsg>>

-----------------------------------------------------------------------------
(* Further claims about LlmHttpClient.requestWithHandling *)

\* A call has made no more attempts than its budget, has waited fewer times
\* than it has attempted, and is over once the budget is spent on failures.
AttemptsBounded(r) ==
  /\ sent[r] <= Budget
  /\ Len(hist[r]) <= sent[r]
  /\ Len(delays[r]) <= Len(hist[r])
  /\ Len(delays[r]) < Budget \/ Budget = 0
  /\ attempt[r] >= Budget => rpc[r] \in {"idle", "done"}

\* The call is over: it has returned a response or thrown an error.
Settled(r) == rpc[r] = "done" /\ rres[r].kind \in {"response", "error"}

\* C35: requestWithHandling always terminates: for every maxAttempts and all
\* outcomes of attempts that complete, a call makes at most maxAttempts
\* attempts, waits fewer times than that, and ends with a response returned
\* or an error thrown.
C35_RequestTerminates ==
  /\ [](\A r \in SoloRequests : AttemptsBounded(r))
  /\ \A r \in SoloRequests : (rpc[r] \in {"attempting", "backoff"}) ~> Settled(r)

\* With a budget of three attempts, three failures and two delays later the
\* call has thrown.
C35_Witness ==
  /\ MaxAttempts = 3
  /\ sent["r1"] = 3
  /\ Len(delays["r1"]) = 2
  /\ AllRetryableFailures(hist["r1"])
  /\ Len(hist["r1"]) = 3
  /\ rpc["r1"] = "done"
  /\ rres["r1"].kind = "error"

\* The calls of requestWithHandling under way or over, in the order made.
RequestOrder == <<"r1", "r2">>

\* C36: all the attempts of one request of LlmHttpClient carry the same
\* Authorization header: the options a call of requestWithHandling was given
\* hold the token acquired for it before its first attempt, no step changes
\* them while the call lasts, and getAuthHeaders is not called again while
\* it lasts, whatever the attempts fail with.
C36_OneTokenPerRequest ==
  /\ [](\A k \in DOMAIN backend :
          /\ options[RequestOrder[k]].authorization = backend[k].authorization
          /\ backend[k].authorization = <<"Bearer ", cauth[k].token>>
          /\ sent[RequestOrder[k]] > 0 => cauth[k].token # NULL)
  /\ [][\A r \in Requests :
          rpc[r] \in {"attempting", "backoff"}
            => (options'[r] = options[r] /\ cauth' = cauth)]_vars

\* The first attempt failed on the network, the second with 401: the call
\* threw, and the one token acquired before the first attempt is still the
\* only one.
C36_Witness ==
  /\ accessToken = ""
  /\ cop = "generateContent"
  /\ sent["r1"] = 2
  /\ Len(hist["r1"]) = 2
  /\ hist["r1"][1].code = "ECONNRESET"
  /\ hist["r1"][2].status = 401
  /\ rres["r1"].kind = "error"
  /\ cauth = <<AuthUse("sso", "tokA")>>
  /\ options["r1"].authorization = <<"Bearer ", "tokA">>

\* Nothing has gone to the backend.
NothingSent ==
  /\ backend = <<>>
  /\ \A r \in Requests : sent[r] = 0 /\ rpc[r] = "idle" /\ hist[r] = <<>>

\* C37: generateContentStream sends nothing to the backend before the
\* returned sequence is first pulled: the call acquires the token and
\* returns the sequence; while the sequence has not been pulled nothing has
\* been sent; the request, and any error of it, come with the first pull,
\* out of the sequence and not out of the call.
C37_StreamIsLazy ==
  cop = "generateContentStream"
    => /\ cpc \in {"auth", "generator"} => (NothingSent /\ cyield = <<>>)
       /\ cpc = "generator"
            => /\ cres.kind = "sequence"
               /\ cgen.status = "suspended"
               /\ Len(cauth) = 1
               /\ cauth[1].token # NULL
       /\ backend # <<>>
            => /\ cgen.status \in {"running", "suspended", "ended", "threw"}
               /\ cpc \notin {"auth", "generator"}
               /\ cres.kind = "sequence"
       /\ cres.kind = "error" => (NothingSent /\ cgen.status = "none")

\* The call has returned the sequence with the SSO token in hand; nobody has
\* pulled, and nothing has been sent.
C37_Witness ==
  /\ cop = "generateContentStream"
  /\ cpc = "generator"
  /\ accessToken = ""
  /\ cauth = <<AuthUse("sso", "tokA")>>
  /\ cres.kind = "sequence"
  /\ NothingSent

-----------------------------------------------------------------------------
(* Claims about a failed save of SsoAuthClient *)

\* The SSO request of c's call delivered a response, the call is over, and
\* its writeFile did not complete.
WriteFailed(c) ==
  /\ spc[c] = "done"
  /\ resp[c] # NoResp
  /\ wrote[c] = <<>>

\* Date.now() at the expiry comparison of a following call.
LaterTimes == {now} \cup {now + d : d \in TickSteps} \cup {MaxSeconds * 1000}

\* C38: when the SSO request succeeds and writing the cache file fails,
\* getToken throws 'SSO Authentication failed' instead of returning the
\* token obtained, and the cache file is left without a usable token, so
\* that a following call misses the cache; a call that misses the cache
\* sends an SSO request.
C38_WriteFailureFailsTheCall ==
  \A c \in SoloCallers :
    /\ WriteFailed(c)
         => /\ sres[c] = ErrorResult(AuthErrorMsg)
            /\ posts[c] = 1
            /\ \A t \in LaterTimes : ~Truthy(GetTokenFromCache(file, t))
    /\ (ssoUrl # "" /\ spc[c] \notin {"idle", "readFile", "checkCache"}
          /\ ~Truthy(GetTokenFromCache(seen[c], checkedAt[c])))
         => posts[c] = 1

\* The SSO endpoint delivered tokA, the file was truncated, the write
\* failed: the call threw and the file is empty.
C38_Witness ==
  /\ WriteFailed("c1")
  /\ resp["c1"].id_token = "tokA"
  /\ resp["c1"].expires_in = 1
  /\ sres["c1"] = ErrorResult(AuthErrorMsg)
  /\ file = EmptyFile
  /\ before["c1"].kind = "cred"

-----------------------------------------------------------------------------
(* Claims about the two local token estimators *)

\* C40: once both estimators have been applied to the same contents, a
\* string, a list of content blocks and bare values, or any other value,
\* the estimate of estimateTokenCount of contentGenerator.ts equals the
\* estimate of LlmHttpClient.estimateTokenCount.
C40_EstimatorsAgree ==
  (estOut.done /\ llmOut.done) => estOut.value = llmOut.value

\* Both estimators ran on a list that holds a content block with text, a
\* function call and inline data next to a bare value, and gave more than
\* the floor of one token.
C40_Witness ==
  /\ estOut.done
  /\ llmOut.done
  /\ estIn.kind = "list"
  /\ \E i \in DOMAIN estIn.items :
       /\ estIn.items[i].kind = "content"
       /\ \E j \in DOMAIN estIn.items[i].parts :
            /\ estIn.items[i].parts[j].inlineData
            /\ estIn.items[i].parts[j].dataLen > 0
  /\ \E i \in DOMAIN estIn.items : estIn.items[i].kind = "bare"
  /\ llmOut.value > 1

====
